---------------------------- MODULE Spec2Model ----------------------------
(* Verification model of the procedural planet / ringworld terrain demo.   *)
(*                                                                         *)
(* Floating-point quantities are carried as fixed-point integers:          *)
(*   positions and lengths in 1/PosOne world units,                        *)
(*   unit vectors in 1/DirOne, latitudes and latitude parameters in        *)
(*   1/LatOne (so that the 1e-5 floor of latFade is one unit),             *)
(*   height masks and blend factors in 1/MaskOne.                          *)
(* Operators pass intermediate values on as parameters, one stage per      *)
(* group of statements of the method they model.                           *)
EXTENDS Integers, Sequences, FiniteSets, TLC

(***************************************************************************)
(* Arithmetic helpers (JavaScript Math.*, THREE.Vector3)                   *)
(***************************************************************************)
PosOne == 100
DirOne == 10000
LatOne == 100000
MaskOne == 1000

Abs(a) == IF a < 0 THEN -a ELSE a
Min2(a, b) == IF a < b THEN a ELSE b
Max2(a, b) == IF a > b THEN a ELSE b

\* Division of two numbers, truncated toward zero.
Div(a, b) == IF (a < 0) = (b < 0) THEN Abs(a) \div Abs(b) ELSE -(Abs(a) \div Abs(b))

RECURSIVE ISqrtIter(_, _, _)
ISqrtIter(n, lo, hi) ==
  IF lo >= hi THEN lo
  ELSE IF ((lo + hi + 1) \div 2) * ((lo + hi + 1) \div 2) <= n
       THEN ISqrtIter(n, (lo + hi + 1) \div 2, hi)
       ELSE ISqrtIter(n, lo, ((lo + hi + 1) \div 2) - 1)

\* Math.sqrt on a non-negative fixed-point square (floor).
ISqrt(n) == ISqrtIter(n, 0, Min2(n, 46340))

VAdd(a, b) == <<a[1] + b[1], a[2] + b[2], a[3] + b[3]>>
VSub(a, b) == <<a[1] - b[1], a[2] - b[2], a[3] - b[3]>>
VNeg(a) == <<-a[1], -a[2], -a[3]>>
VDot(a, b) == a[1] * b[1] + a[2] * b[2] + a[3] * b[3]
\* v * s where s is a fixed-point factor with unit `one`.
VScale(v, s, one) == <<Div(v[1] * s, one), Div(v[2] * s, one), Div(v[3] * s, one)>>
\* A vector given in world units, in position units.
VPos(v) == <<v[1] * PosOne, v[2] * PosOne, v[3] * PosOne>>
VCross(a, b) ==
  <<a[2] * b[3] - a[3] * b[2], a[3] * b[1] - a[1] * b[3], a[1] * b[2] - a[2] * b[1]>>

\* Vector3.normalize(): divideScalar(length() || 1); the result is in 1/DirOne.
\* Large vectors are pre-scaled so the squared length stays in range.
VDivideScalar(w, len) ==
  IF len = 0 THEN <<0, 0, 0>>
  ELSE <<Div(w[1] * DirOne, len), Div(w[2] * DirOne, len), Div(w[3] * DirOne, len)>>
VNormalizeScaled(w) == VDivideScalar(w, ISqrt(VDot(w, w)))
VNormalize(v) ==
  VNormalizeScaled(VScale(v, 1, (Max2(Abs(v[1]), Max2(Abs(v[2]), Abs(v[3]))) \div DirOne) + 1))

\* Vector3.applyMatrix4 for an affine matrix given as rows and a translation
\* (translation in world units).
ApplyMatrix4(m, v) ==
  <<VDot(m.rows[1], v) + m.t[1] * PosOne,
    VDot(m.rows[2], v) + m.t[2] * PosOne,
    VDot(m.rows[3], v) + m.t[3] * PosOne>>

\* Infinity, in 1/MaskOne: every power at or above it is carried as this value.
Infinity == 1000000

\* Math.pow(b, e) for b in [0, 1] (unit MaskOne) and an exponent given in
\* halves (3 = 1.5); pow(b, 0) = 1 for every b; pow(b, -e) = 1 / pow(b, e),
\* which is Infinity for b = 0.
RECURSIVE PowHalves(_, _)
PowHalves(b, h) ==
  IF h < 0
    THEN IF PowHalves(b, -h) = 0 THEN Infinity
         ELSE Min2(Infinity, Div(MaskOne * MaskOne, PowHalves(b, -h)))
  ELSE IF h = 0 THEN MaskOne
  ELSE IF h = 1 THEN ISqrt(b * MaskOne)
  ELSE Div(b * PowHalves(b, h - 2), MaskOne)

Has(rec, f) == f \in DOMAIN rec

\* An array filled once: the function with every element computed.
Filled(f) == f @@ << >>

(***************************************************************************)
(* Collaborators of the chunk builder whose code is outside this source    *)
(* tree (noise.js, texture-splatter.js): pure functions of their           *)
(* arguments and of the construction-time parameters.                      *)
(***************************************************************************)
NoiseSpan == 97

\* noise.Noise.Get: a pure function of (x, y, z, seed).
NoiseGet(seed, x, y, z) ==
  ((Abs(x) * 3 + Abs(y) * 5 + Abs(z) * 7 + seed * 11) % NoiseSpan) * (PosOne \div 10)

\* texture_splatter.HeightGenerator.Get(x, y, z)[0]: the noise, kept in [min, max].
HeightGeneratorGet(p, w) ==
  Max2(p.heightGeneratorsParams.min,
       Min2(p.heightGeneratorsParams.max, NoiseGet(p.noiseParams, w[1], w[2], w[3])))

\* TextureSplatter.GetColour(position) -> RGB.
GetColour(p, s) ==
  <<NoiseGet(p.colourNoiseParams, s[1], s[2], s[3]) % 256,
    NoiseGet(p.biomesParams, s[1], s[2], s[3]) % 256,
    Abs(s[3]) % 256>>

TextureTypes == {"dirt", "grass", "rock", "sand", "snow"}

TextureIndex(k) ==
  CASE k = "dirt" -> 0 [] k = "grass" -> 1 [] k = "rock" -> 2 [] k = "sand" -> 3
    [] OTHER -> 4

\* TextureSplatter.GetSplat(position, normal, up) -> {type: {index, strength}}:
\* slope (normal . up), elevation and the biome noise contribute to strength.
SplatOf(slope, elev, biome) ==
  [k \in TextureTypes |->
     [index |-> TextureIndex(k),
      strength |->
        CASE k = "dirt" -> 1 + biome
          [] k = "grass" -> 1 + (slope \div (DirOne \div 4))
          [] k = "rock" -> 5 - Min2(4, slope \div (DirOne \div 4))
          [] k = "sand" -> IF elev < 2 THEN 4 ELSE 1
          [] OTHER -> Min2(6, elev)]]
GetSplat(p, pos, n, up) ==
  Filled(SplatOf(Abs(Div(VDot(n, up), DirOne)), Abs(pos[3]) \div (PosOne \div 10),
                 NoiseGet(p.biomesParams, pos[1], pos[2], 0) % 4))

(***************************************************************************)
(* _TerrainBuilderThreadedWorker.Rebuild                                   *)
(***************************************************************************)
DefaultLatCutoff == 30000
DefaultLatFade == 20000
DefaultDropExponent == 3
DefaultCullCap == 95000
LatFadeMin == 1
UvDivisor == 200

IsRing(p) == p.shape = "ring"

\* Variant of LatCutoff that ignores the latCutoff given in shapeParams.
LatCutoffIgnored(p) == DefaultLatCutoff
LatCutoff(p) ==
  IF Has(p.shapeParams, "latCutoff") THEN p.shapeParams.latCutoff ELSE DefaultLatCutoff
LatFade(p) ==
  IF Has(p.shapeParams, "latFade") THEN p.shapeParams.latFade ELSE DefaultLatFade
DropExponent(p) ==
  IF Has(p.shapeParams, "dropExponent") THEN p.shapeParams.dropExponent
  ELSE DefaultDropExponent
CullLatitude(p) ==
  IF Has(p.shapeParams, "cullLatitude") THEN p.shapeParams.cullLatitude
  ELSE Min2(DefaultCullCap, LatCutoff(p) + Div(LatFade(p) * 9, 10))
LatCutoffClamped(p) == Max2(0, Min2(LatOne, LatCutoff(p)))
LatFadeSafe(p) == Max2(LatFadeMin, LatFade(p))
\* "Infinity" for a planet is a limit no latitude exceeds.
CullLatitudeLimit(p) ==
  IF IsRing(p) THEN Max2(0, Min2(LatOne, CullLatitude(p))) ELSE LatOne + 1

\* Height mask of a ring vertex at the given latitude (lines 132-136).
HeightMaskAt(p, latitudeValue) ==
  MaskOne - PowHalves(
    Min2(MaskOne,
         Max2(0, Div((latitudeValue - LatCutoffClamped(p)) * MaskOne, LatFadeSafe(p)))),
    DropExponent(p))

\* The grid point before projection (lines 102-108).
GridPoint(p, x, y) ==
  <<Div(p.width * PosOne * x, p.resolution) - Div(p.width * PosOne, 2) + p.offset[1] * PosOne,
    Div(p.width * PosOne * y, p.resolution) - Div(p.width * PosOne, 2) + p.offset[2] * PosOne,
    p.radius * PosOne + p.offset[3] * PosOne>>

\* Normalised onto the sphere, moved to the face plane, through localToWorld
\* (lines 109-113).
FacePoint(p, q) ==
  ApplyMatrix4(p.worldMatrix,
               VSub(VScale(VNormalize(q), p.radius * PosOne, DirOne), <<0, 0, p.radius * PosOne>>))

\* _D and latitudeValue (lines 115-121).
Direction(fp) == IF VDot(fp, fp) > 0 THEN VNormalize(fp) ELSE <<0, DirOne, 0>>
Latitude(fp, d) == IF VDot(fp, fp) > 0 THEN Abs(d[2]) * (LatOne \div DirOne) ELSE 0

\* _EquatorDir (lines 125-130).
EquatorDir(d) ==
  IF d[1] * d[1] + d[3] * d[3] < 1 THEN <<DirOne, 0, 0>> ELSE VNormalize(<<d[1], 0, d[3]>>)

\* Everything pushed for a vertex once its world position w, up vector d and
\* height vector hv are known (lines 169-182).
VertexRecord(p, lat, mask, w, d, height, hv) ==
  [latitude |-> lat,
   heightMask |-> mask,
   position |-> VAdd(VSub(w, VPos(p.origin)), hv),
   coord |-> VAdd(w, hv),
   colour |-> GetColour(p, <<w[1], w[2], height>>),
   up |-> d,
   wsPosition |-> <<w[1], w[2], height>>,
   uv |-> <<Div(VAdd(VSub(w, VPos(p.origin)), hv)[1], UvDivisor),
            Div(VAdd(VSub(w, VPos(p.origin)), hv)[2], UvDivisor)>>]

\* Height along the up vector (lines 161-167).
VertexHeighted(p, lat, mask, w, d, height) ==
  VertexRecord(p, lat, mask, w, d, height, VScale(d, height, DirOne))

\* Variant of VertexPlaced that samples the height at the position relative
\* to the origin.
VertexPlacedLocalHeight(p, lat, mask, pos, d) ==
  VertexHeighted(p, lat, mask, VAdd(pos, VPos(p.center)), d,
                 IF IsRing(p)
                   THEN Div(HeightGeneratorGet(p, VSub(VAdd(pos, VPos(p.center)), VPos(p.origin)))
                            * mask, MaskOne)
                   ELSE HeightGeneratorGet(p, VSub(VAdd(pos, VPos(p.center)), VPos(p.origin))))

\* World position and masked height (lines 152-164).
VertexPlaced(p, lat, mask, pos, d) ==
  VertexHeighted(p, lat, mask, VAdd(pos, VPos(p.center)), d,
                 IF IsRing(p)
                   THEN Div(HeightGeneratorGet(p, VAdd(pos, VPos(p.center))) * mask, MaskOne)
                   ELSE HeightGeneratorGet(p, VAdd(pos, VPos(p.center))))

\* The ring branch (lines 124-147): position on the ring, up = -radial.
VertexOnRing(p, lat, d, e) ==
  VertexPlaced(p, lat, HeightMaskAt(p, lat),
               <<Div(e[1] * p.radius * PosOne, DirOne), Div(d[2] * p.radius * PosOne, DirOne),
                 Div(e[3] * p.radius * PosOne, DirOne)>>,
               VNeg(e))

VertexShaped(p, fp, d) ==
  IF IsRing(p) THEN VertexOnRing(p, Latitude(fp, d), d, EquatorDir(d))
  ELSE VertexPlaced(p, Latitude(fp, d), MaskOne, fp, d)

VertexAt(p, fp) == VertexShaped(p, fp, Direction(fp))

\* One grid vertex (x, y) of the first pass (lines 101-183).
GridVertex(p, x, y) == VertexAt(p, FacePoint(p, GridPoint(p, x, y)))

Row(p) == p.resolution + 1
NumVerts(p) == Row(p) * Row(p)

\* The per-vertex arrays after the first pass, indexed as pushed: x * row + y.
GridVerts(p) ==
  Filled([v \in 0..(NumVerts(p) - 1) |-> GridVertex(p, v \div Row(p), v % Row(p))])

\* The four corner indices of grid quad (i, j) (lines 188-192).
QuadCorners(p, i, j) ==
  [v00 |-> i * Row(p) + j, v01 |-> i * Row(p) + j + 1,
   v10 |-> (i + 1) * Row(p) + j, v11 |-> (i + 1) * Row(p) + j + 1]

Max4(a, b, c, d) == Max2(Max2(a, b), Max2(c, d))
Min4(a, b, c, d) == Min2(Min2(a, b), Min2(c, d))

\* Variant of QuadCulledAt that leaves out the height-mask test.
QuadCulledAtNoMask(p, verts, c) ==
  /\ IsRing(p)
  /\ Max4(verts[c.v00].latitude, verts[c.v01].latitude,
          verts[c.v10].latitude, verts[c.v11].latitude) > CullLatitudeLimit(p)

\* Variant of QuadCulledAt with Math.min and Math.max exchanged: a quad is
\* dropped only when all four corners fail.
QuadCulledAtAllCorners(p, verts, c) ==
  /\ IsRing(p)
  /\ \/ Min4(verts[c.v00].latitude, verts[c.v01].latitude,
             verts[c.v10].latitude, verts[c.v11].latitude) > CullLatitudeLimit(p)
     \/ Max4(verts[c.v00].heightMask, verts[c.v01].heightMask,
             verts[c.v10].heightMask, verts[c.v11].heightMask) <= 0

\* Whether the ring culling drops the quad with corners c (lines 194-214).
QuadCulledAt(p, verts, c) ==
  /\ IsRing(p)
  /\ \/ Max4(verts[c.v00].latitude, verts[c.v01].latitude,
             verts[c.v10].latitude, verts[c.v11].latitude) > CullLatitudeLimit(p)
     \/ Min4(verts[c.v00].heightMask, verts[c.v01].heightMask,
             verts[c.v10].heightMask, verts[c.v11].heightMask) <= 0

\* The two triangles pushed for a surviving quad (lines 216-222).
QuadTriangles(p, c) ==
  IF IsRing(p) THEN << <<c.v00, c.v01, c.v11>>, <<c.v00, c.v11, c.v10>> >>
  ELSE << <<c.v00, c.v11, c.v01>>, <<c.v00, c.v10, c.v11>> >>

QuadEmit(p, verts, c) == IF QuadCulledAt(p, verts, c) THEN << >> ELSE QuadTriangles(p, c)

\* `indices` as a sequence of triangles, in the order of the loops over i and j.
RECURSIVE BuildIndices(_, _, _)
BuildIndices(p, verts, k) ==
  IF k >= p.resolution * p.resolution THEN << >>
  ELSE QuadEmit(p, verts, QuadCorners(p, k \div p.resolution, k % p.resolution))
       \o BuildIndices(p, verts, k + 1)

\* Face normal of a triangle as accumulated (lines 233-239).
FaceNormal(verts, tri) ==
  VCross(VSub(verts[tri[3]].position, verts[tri[2]].position),
         VSub(verts[tri[1]].position, verts[tri[2]].position))

RECURSIVE SumNormals(_, _, _, _)
SumNormals(verts, tris, v, t) ==
  IF t > Len(tris) THEN <<0, 0, 0>>
  ELSE VAdd(IF v \in {tris[t][1], tris[t][2], tris[t][3]}
              THEN FaceNormal(verts, tris[t]) ELSE <<0, 0, 0>>,
            SumNormals(verts, tris, v, t + 1))

\* `normals` after accumulation and per-vertex normalisation (lines 226-260).
VertexNormals(verts, tris) ==
  Filled([v \in DOMAIN verts |-> VNormalize(SumNormals(verts, tris, v, 1))])

\* Summed strength of texture type k over the triangle's three splats
\* (lines 277-285).
SplatStrength(splats, k) ==
  splats[1][k].strength + splats[2][k].strength + splats[3][k].strength

\* Whether type a is sorted before type b (lines 288-296); equal strengths
\* keep the key order of splats[0].
SortsBefore(splats, a, b) ==
  \/ SplatStrength(splats, a) > SplatStrength(splats, b)
  \/ /\ SplatStrength(splats, a) = SplatStrength(splats, b)
     /\ splats[1][a].index < splats[1][b].index

\* typeValues after the descending sort (lines 287-296), as the sequence of keys.
TypeValues(splats) ==
  Filled([n \in 1..Cardinality(DOMAIN splats[1]) |->
            CHOOSE k \in DOMAIN splats[1] :
              Cardinality({a \in DOMAIN splats[1] : SortsBefore(splats, a, k)}) = n - 1])

\* The three splats of a triangle (lines 263-275).
TriangleSplats(p, verts, normals, tri) ==
  Filled([s \in 1..3 |->
            GetSplat(p, verts[tri[s]].wsPosition, normals[tri[s]], verts[tri[s]].up)])

\* Variant of CornerWeights1 that pushes the strongest type first.
CornerWeights1Descending(splats, tv, s) ==
  <<splats[s][tv[1]].index, splats[s][tv[2]].index,
    splats[s][tv[3]].index, splats[s][tv[4]].index>>

\* The 4 texture indices pushed to weights1 for corner s (lines 316-329).
CornerWeights1(splats, tv, s) ==
  <<splats[s][tv[4]].index, splats[s][tv[3]].index,
    splats[s][tv[2]].index, splats[s][tv[1]].index>>

\* The 4 strengths pushed to weights2 for corner s (lines 302-314, 331-344):
\* the vertex's own strength times 1 / total, kept as the exact ratio
\* <<strength, total>>.
\* Variant of CornerTotal that leaves the fourth type out of the total.
CornerTotalOfThree(splats, tv, s) ==
  splats[s][tv[1]].strength + splats[s][tv[2]].strength + splats[s][tv[3]].strength
CornerTotal(splats, tv, s) ==
  splats[s][tv[1]].strength + splats[s][tv[2]].strength
  + splats[s][tv[3]].strength + splats[s][tv[4]].strength
CornerWeights2(splats, tv, s) ==
  << <<splats[s][tv[4]].strength, CornerTotal(splats, tv, s)>>,
     <<splats[s][tv[3]].strength, CornerTotal(splats, tv, s)>>,
     <<splats[s][tv[2]].strength, CornerTotal(splats, tv, s)>>,
     <<splats[s][tv[1]].strength, CornerTotal(splats, tv, s)>> >>

TriangleWeights(splats, tv, which) ==
  IF which = 1
    THEN CornerWeights1(splats, tv, 1) \o CornerWeights1(splats, tv, 2)
         \o CornerWeights1(splats, tv, 3)
    ELSE CornerWeights2(splats, tv, 1) \o CornerWeights2(splats, tv, 2)
         \o CornerWeights2(splats, tv, 3)

SplatWeights(splats, which) == TriangleWeights(splats, TypeValues(splats), which)

\* weights1 (which = 1) or weights2 (which = 2) over all triangles
\* (lines 262-345).
RECURSIVE BuildWeights(_, _, _, _, _, _)
BuildWeights(p, verts, normals, tris, t, which) ==
  IF t > Len(tris) THEN << >>
  ELSE SplatWeights(TriangleSplats(p, verts, normals, tris[t]), which)
       \o BuildWeights(p, verts, normals, tris, t + 1, which)

\* Variant of _Unindex that copies only the first two corners of a triangle.
RECURSIVE UnindexTwoCorners(_, _, _, _, _)
UnindexTwoCorners(verts, field, stride, tris, t) ==
  IF t > Len(tris) THEN << >>
  ELSE SubSeq(verts[tris[t][1]][field], 1, stride)
       \o SubSeq(verts[tris[t][2]][field], 1, stride)
       \o UnindexTwoCorners(verts, field, stride, tris, t + 1)

\* _Unindex(src, stride) on the per-vertex array `field`: its groups,
\* duplicated per triangle corner in triangle order (lines 347-365).
RECURSIVE Unindex(_, _, _, _, _)
Unindex(verts, field, stride, tris, t) ==
  IF t > Len(tris) THEN << >>
  ELSE SubSeq(verts[tris[t][1]][field], 1, stride)
       \o SubSeq(verts[tris[t][2]][field], 1, stride)
       \o SubSeq(verts[tris[t][3]][field], 1, stride)
       \o Unindex(verts, field, stride, tris, t + 1)

\* The intermediate arrays of one Rebuild: per-vertex data, indices, normals.
TraceOf(verts, tris) ==
  [verts |-> verts, indices |-> tris, normals |-> VertexNormals(verts, tris)]
TraceFrom(p, verts) == TraceOf(verts, BuildIndices(p, verts, 0))
RebuildTrace(p) == TraceFrom(p, GridVerts(p))

\* The seven typed arrays returned (lines 367-414).
RebuildResult(p, tr) ==
  [positions |-> Unindex(tr.verts, "position", 3, tr.indices, 1),
   colours |-> Unindex(tr.verts, "colour", 3, tr.indices, 1),
   uvs |-> Unindex(tr.verts, "uv", 2, tr.indices, 1),
   normals |-> Unindex([v \in DOMAIN tr.verts |-> [normal |-> tr.normals[v]]],
                       "normal", 3, tr.indices, 1),
   coords |-> Unindex(tr.verts, "coord", 3, tr.indices, 1),
   weights1 |-> BuildWeights(p, tr.verts, tr.normals, tr.indices, 1, 1),
   weights2 |-> BuildWeights(p, tr.verts, tr.normals, tr.indices, 1, 2)]

Rebuild(p) == RebuildResult(p, RebuildTrace(p))

(***************************************************************************)
(* _TerrainBuilderThreadedWorker.Init and the worker's message handler     *)
(***************************************************************************)
\* The value of _CHUNK._params before any request (constructor() {}).
NoParams == [undefined |-> TRUE]

Drop(rec, fields) == [f \in DOMAIN rec \ fields |-> rec[f]]
With(rec, f, val) == [g \in DOMAIN rec \cup {f} |-> IF g = f THEN val ELSE rec[g]]

\* Object.assign(target, source).
Assign(target, source) ==
  [f \in DOMAIN target \cup DOMAIN source |-> IF f \in DOMAIN source THEN source[f] ELSE target[f]]

\* Variant of Init that assigns the request's shapeParams onto the object left
\* by the previous request instead of onto a fresh one.
InitReusingShapeParams(old, params) ==
  IF params = NoParams THEN [threw |-> TRUE, params |-> NoParams]
  ELSE IF ~Has(params, "offset") THEN [threw |-> TRUE, params |-> params]
  ELSE IF ~Has(params, "center") THEN [threw |-> TRUE, params |-> params]
  ELSE [threw |-> ~Has(params, "heightGeneratorsParams"),
        params |->
          With(With(params, "shape", IF Has(params, "shape") THEN params.shape ELSE "planet"),
               "shapeParams",
               Assign(IF Has(old, "shapeParams") THEN old.shapeParams ELSE << >>,
                      IF Has(params, "shapeParams") THEN params.shapeParams ELSE << >>))]

\* Init(params): the statements in order; a read of a property of undefined
\* throws and leaves this._params as assigned so far.
Init(old, params) ==
  IF params = NoParams THEN [threw |-> TRUE, params |-> NoParams]
  ELSE IF ~Has(params, "offset") THEN [threw |-> TRUE, params |-> params]
  ELSE IF ~Has(params, "center") THEN [threw |-> TRUE, params |-> params]
  ELSE [threw |-> ~Has(params, "heightGeneratorsParams"),
        params |->
          With(With(params, "shape", IF Has(params, "shape") THEN params.shape ELSE "planet"),
               "shapeParams",
               Assign(<< >>, IF Has(params, "shapeParams") THEN params.shapeParams ELSE << >>))]

\* The transfer list of postMessage: the buffers of the seven arrays, each
\* array owning the buffer of its own name (lines 427-435).
TransferList ==
  <<"positions", "colours", "normals", "coords", "uvs", "weights1", "weights2">>

\* The message posted for a finished build (lines 437-440).
ResultMessage(rebuiltData) ==
  [subject |-> "build_chunk_result", data |-> rebuiltData, transfer |-> TransferList]

(***************************************************************************)
(* Inputs                                                                  *)
(***************************************************************************)
MaxResolution == 2
CubeRadius == 4

\* Face transforms handed to the builder as worldMatrix: a rotation and a
\* translation by the radius along the face normal.
FacePZ == [rows |-> << <<1, 0, 0>>, <<0, 1, 0>>, <<0, 0, 1>> >>, t |-> <<0, 0, CubeRadius>>]
FacePX == [rows |-> << <<0, 0, 1>>, <<0, 1, 0>>, <<-1, 0, 0>> >>, t |-> <<CubeRadius, 0, 0>>]
FacePY == [rows |-> << <<1, 0, 0>>, <<0, 0, 1>>, <<0, -1, 0>> >>, t |-> <<0, CubeRadius, 0>>]

\* shapeParams values: none given; the latitude-fade scenario of the ring;
\* a cull latitude above 1; a negative fade with a zero exponent; a cull
\* latitude below the fade band.
ShapeParamsSet ==
  { << >>,
    [latCutoff |-> 2000, latFade |-> 5000, dropExponent |-> 3],
    [latCutoff |-> 30000, latFade |-> 20000, dropExponent |-> 2, cullLatitude |-> 150000],
    [latCutoff |-> -10000, latFade |-> -5000, dropExponent |-> 0, cullLatitude |-> 60000],
    [latCutoff |-> 20000, latFade |-> 60000, dropExponent |-> 3, cullLatitude |-> 43000] }

\* Chunk footprints on a face: the whole face, two quarter faces, a sixteenth.
Footprints ==
  { [width |-> 2 * CubeRadius, offset |-> <<0, 0, 0>>],
    [width |-> CubeRadius, offset |-> <<2, 2, 0>>],
    [width |-> CubeRadius, offset |-> <<-2, 2, 0>>],
    [width |-> 2, offset |-> <<1, -1, 0>>] }

BuildParams(shape, sp, res, fp, m, origin, center) ==
  [offset |-> fp.offset, center |-> center, shape |-> shape, shapeParams |-> sp,
   resolution |-> res, radius |-> CubeRadius, width |-> fp.width, origin |-> origin,
   worldMatrix |-> m, noiseParams |-> 1, biomesParams |-> 2, colourNoiseParams |-> 3,
   heightGeneratorsParams |-> [min |-> 0, max |-> 60]]

\* Well-formed build_chunk params, including ones that leave out the optional
\* shape and shapeParams.
BuildInputs ==
  LET full == { BuildParams(shape, sp, res, fp, m, origin, center) :
                  shape \in {"planet", "ring"}, sp \in ShapeParamsSet,
                  res \in 1..MaxResolution, fp \in Footprints,
                  m \in {FacePZ, FacePX, FacePY},
                  origin \in {<<0, 0, 0>>, <<3, 0, 1>>},
                  center \in {<<0, 0, 0>>, <<10, 0, 0>>} }
  IN full \cup { Drop(r, {"shape", "shapeParams"}) : r \in {f \in full : f.shape = "planet" /\ f.shapeParams = << >>} }

\* Messages delivered to the worker: well-formed build requests (a planet
\* chunk, ring chunks partly and fully culled, one with its own shapeParams,
\* one leaving shape and shapeParams out), requests whose params lack a
\* field or are missing, and a message with another subject.
RingRequest(sp, m) ==
  BuildParams("ring", sp, 2, [width |-> CubeRadius, offset |-> <<2, 2, 0>>], m,
              <<0, 0, 0>>, <<10, 0, 0>>)
PlanetRequest ==
  BuildParams("planet", << >>, 1, [width |-> 2 * CubeRadius, offset |-> <<0, 0, 0>>],
              FacePZ, <<3, 0, 1>>, <<0, 0, 0>>)
WorkerMessages ==
  { [subject |-> "build_chunk", params |-> PlanetRequest],
    [subject |-> "build_chunk", params |-> Drop(PlanetRequest, {"shape", "shapeParams"})],
    [subject |-> "build_chunk", params |-> RingRequest(<< >>, FacePZ)],
    [subject |-> "build_chunk", params |-> RingRequest(<< >>, FacePY)],
    [subject |-> "build_chunk",
     params |-> RingRequest([latCutoff |-> 20000, latFade |-> 60000, dropExponent |-> 3,
                             cullLatitude |-> 43000], FacePZ)],
    [subject |-> "build_chunk", params |-> Drop(PlanetRequest, {"heightGeneratorsParams"})],
    [subject |-> "build_chunk", params |-> NoParams],
    [subject |-> "ping", params |-> PlanetRequest] }
MaxMessages == 3

\* Ocean managers constructed: a planet, a ring around its own centre, and
\* one given neither shape nor centre.
OceanParamsSet ==
  { [shape |-> "planet", radius |-> 3990, center |-> <<0, 0, 0>>],
    [shape |-> "ring", radius |-> 4010, center |-> <<10000, 0, 0>>],
    [radius |-> 3990] }
\* Camera positions: above the +z face, off its centre, far from every face.
OceanCameraPositions == { <<0, 0, 9000>>, <<3000, 0, 5000>>, <<12000, 12000, 12000>> }
\* Values the radius and the minimum-cell-size controls hand to their handlers.
OceanRadiusValues == { 8000 }
MinCellSizeValues == { 4 }
MaxUpdates == 2

(***************************************************************************)
(* Cube-Quadtree and dictionary helpers.  quadtree.js, utils.js and        *)
(* terrain-constants.js are outside this source tree; they are modelled    *)
(* from their specification: six face trees rebuilt per query, a node      *)
(* subdivides when the camera, projected to the node's plane, is closer    *)
(* to the node's centre than size * K and the node is larger than          *)
(* min_node_size.                                                          *)
(***************************************************************************)
QuadtreeK == 1
QT_MIN_CELL_SIZE == 2
QT_MIN_CELL_RESOLUTION == 2

\* The six fixed orientations: local (x, y) maps to x*u + y*v + radius*n.
FaceAxes ==
  [i \in 0..5 |->
     CASE i = 0 -> [u |-> <<1, 0, 0>>, v |-> <<0, 0, -1>>, n |-> <<0, 1, 0>>]
       [] i = 1 -> [u |-> <<1, 0, 0>>, v |-> <<0, 0, 1>>, n |-> <<0, -1, 0>>]
       [] i = 2 -> [u |-> <<1, 0, 0>>, v |-> <<0, 1, 0>>, n |-> <<0, 0, 1>>]
       [] i = 3 -> [u |-> <<-1, 0, 0>>, v |-> <<0, 1, 0>>, n |-> <<0, 0, -1>>]
       [] i = 4 -> [u |-> <<0, 0, -1>>, v |-> <<0, 1, 0>>, n |-> <<1, 0, 0>>]
       [] OTHER -> [u |-> <<0, 0, 1>>, v |-> <<0, 1, 0>>, n |-> <<-1, 0, 0>>]]

\* A face transform: the columns u, v, n as a rotation, and the translation
\* by the radius along n.
FaceTransform(i, radius) ==
  [rows |-> << <<FaceAxes[i].u[1], FaceAxes[i].v[1], FaceAxes[i].n[1]>>,
               <<FaceAxes[i].u[2], FaceAxes[i].v[2], FaceAxes[i].n[2]>>,
               <<FaceAxes[i].u[3], FaceAxes[i].v[3], FaceAxes[i].n[3]>> >>,
   t |-> <<FaceAxes[i].n[1] * radius, FaceAxes[i].n[2] * radius, FaceAxes[i].n[3] * radius>>]

\* Box3 in the local plane, with getCenter and getSize.
Box3(cx, cy, size) ==
  [min |-> <<cx - (size \div 2), cy - (size \div 2), 0>>,
   max |-> <<cx + (size \div 2), cy + (size \div 2), 0>>]
Box3Center(b) ==
  <<(b.min[1] + b.max[1]) \div 2, (b.min[2] + b.max[2]) \div 2, (b.min[3] + b.max[3]) \div 2>>
Box3Size(b) == VSub(b.max, b.min)

QuadtreeNode(cx, cy, size) ==
  [bounds |-> Box3(cx, cy, size), center |-> <<cx, cy, 0>>, size |-> size]
RootNode(radius) == QuadtreeNode(0, 0, 2 * radius)
\* Variant of NodeChildren that leaves one quadrant out.
NodeChildrenThree(node) ==
  { QuadtreeNode(node.center[1] + sx * (node.size \div 4),
                 node.center[2] + sy * (node.size \div 4), node.size \div 2) :
      sx \in {-1, 1}, sy \in {-1, 1} } \ { QuadtreeNode(node.center[1] + (node.size \div 4),
                                                     node.center[2] + (node.size \div 4),
                                                     node.size \div 2) }
NodeChildren(node) ==
  { QuadtreeNode(node.center[1] + sx * (node.size \div 4),
                 node.center[2] + sy * (node.size \div 4), node.size \div 2) :
      sx \in {-1, 1}, sy \in {-1, 1} }

\* The camera position projected to the plane of face i, in local coordinates.
CameraOnPlane(i, cameraPosition) ==
  <<VDot(cameraPosition, FaceAxes[i].u), VDot(cameraPosition, FaceAxes[i].v), 0>>

\* Variant of Subdivides that compares twice the node size with min_node_size.
SubdividesTwiceSize(node, p, minNodeSize) ==
  /\ VDot(VSub(p, node.center), VSub(p, node.center))
       < (node.size * QuadtreeK) * (node.size * QuadtreeK)
  /\ node.size * 2 > minNodeSize

Subdivides(node, p, minNodeSize) ==
  /\ VDot(VSub(p, node.center), VSub(p, node.center))
       < (node.size * QuadtreeK) * (node.size * QuadtreeK)
  /\ node.size > minNodeSize

RECURSIVE LeavesUnder(_, _, _)
LeavesUnder(node, p, minNodeSize) ==
  IF Subdivides(node, p, minNodeSize)
  THEN UNION { LeavesUnder(c, p, minNodeSize) : c \in NodeChildren(node) }
  ELSE {node}

\* new CubeQuadTree({radius, min_node_size}), Insert(cameraPosition),
\* GetChildren(): per face, its transform and its leaves.
CubeQuadTreeChildren(radius, minNodeSize, cameraPosition) ==
  Filled([i \in 0..5 |->
            [transform |-> FaceTransform(i, radius),
             children |-> LeavesUnder(RootNode(radius), CameraOnPlane(i, cameraPosition),
                                      minNodeSize)]])

\* utils.DictIntersection(a, b): the entries of a whose key is in b.
DictIntersection(a, b) == Filled([k \in DOMAIN a \cap DOMAIN b |-> a[k]])
\* utils.DictDifference(a, b): the entries of a whose key is not in b.
DictDifference(a, b) == Filled([k \in DOMAIN a \ DOMAIN b |-> a[k]])
\* Object.values
Values(d) == { d[k] : k \in DOMAIN d }

\* Trees built: radius and min_node_size, with ratios of root size to
\* min_node_size that are and that are not powers of two, and one root
\* smaller than min_node_size.
QuadRadii == {4000, 6000, 8000}
QuadMinNodeSizes == {1000, 4000, 5000, 20000}
\* Positions inserted: on a face centre, off centre, on an edge, inside the
\* cube, at its centre, far away.
QuadCameraPositions ==
  { <<0, 0, 9000>>, <<3000, 0, 5000>>, <<4000, 4000, 0>>, <<500, -1500, 2500>>,
    <<0, 0, 0>>, <<12000, 12000, 12000>> }

(***************************************************************************)
(* OceanChunkManager (ocean.js): pure parts                                *)
(***************************************************************************)
DefaultOceanRadius == 400010
OceanRadiusOffset == 10
MinCellSizeFactor == 2000

\* _Init: _radius, _center, _shape (lines 26-35).
OceanInitRadius(params) ==
  IF Has(params, "radius") /\ params.radius # 0
  THEN IF Has(params, "shape") /\ params.shape = "ring"
       THEN params.radius - OceanRadiusOffset
       ELSE params.radius + OceanRadiusOffset
  ELSE DefaultOceanRadius
OceanInitCenter(params) == IF Has(params, "center") THEN params.center ELSE <<0, 0, 0>>
OceanInitShape(params) == IF Has(params, "shape") THEN params.shape ELSE "planet"
\* _minCellSize (line 19, and the QT_MIN_CELL_SIZE control).
OceanMinCellSize(value) == value * MinCellSizeFactor

\* The camera position the quadtree is queried with (lines 484-487).
OceanQueryPosition(shape, cameraPosition, center) ==
  IF shape = "ring" THEN VSub(cameraPosition, center) ELSE cameraPosition

\* Vector3.applyMatrix4 in world units.
OceanApplyMatrix4(m, v) ==
  <<VDot(m.rows[1], v) + m.t[1], VDot(m.rows[2], v) + m.t[2], VDot(m.rows[3], v) + m.t[3]>>

\* _EquatorDir of the chunk centre (lines 282-287).
OceanEquatorDir(d) ==
  IF d[1] * d[1] + d[3] * d[3] < 1 THEN <<DirOne, 0, 0>> ELSE VNormalize(<<d[1], 0, d[3]>>)

\* worldCenter of a chunk from the unit direction d of its centre
\* (lines 278-297).
OceanWorldCenterOf(shape, d, oceanRadius, center) ==
  IF shape = "ring"
  THEN VAdd(<<VScale(OceanEquatorDir(d), oceanRadius, DirOne)[1],
              Div(d[2] * oceanRadius, DirOne),
              VScale(OceanEquatorDir(d), oceanRadius, DirOne)[3]>>, center)
  ELSE VScale(d, oceanRadius, DirOne)
OceanWorldCenter(shape, groupTransform, offset, oceanRadius, center) ==
  OceanWorldCenterOf(shape, VNormalize(OceanApplyMatrix4(groupTransform, offset)),
                     oceanRadius, center)

\* The mesh material: the shared material, or for a ring the clone made for
\* this chunk (lines 421, 429-433).
SharedMaterial == [material |-> "shared"]
ChunkMaterial(shape, fresh) ==
  IF shape = "ring" THEN [material |-> "clone", of |-> fresh] ELSE SharedMaterial

\* _CreateOceanChunk (lines 215-443).  `fresh` is the identity of the
\* objects this call allocates; the vertex data of the geometry is not
\* modelled.
CreateOceanChunk(group, groupTransform, offset, width, resolution, fresh, shape, oceanRadius, center) ==
  [mesh |-> [mesh |-> fresh, material |-> ChunkMaterial(shape, fresh)],
   geometry |-> [geometry |-> fresh, width |-> width, resolution |-> resolution],
   group |-> group,
   origin |-> OceanWorldCenter(shape, groupTransform, offset, oceanRadius, center)]

\* _Key (lines 465-477): the string "x/y [size] [index]", as the tuple of
\* the numbers it is made of.
_Key(c) == <<c.position[1], c.position[2], c.size, c.index>>

\* The child built for leaf c of side i (lines 497-507).
OceanChild(i, side, c) ==
  [index |-> i, group |-> i, transform |-> side.transform,
   position |-> Box3Center(c.bounds), bounds |-> c.bounds, size |-> Box3Size(c.bounds)[1]]
OceanChildren(sides) ==
  UNION { { OceanChild(i, sides[i], c) : c \in sides[i].children } : i \in DOMAIN sides }
\* newOceanChunks[k] = child, sides in index order: a later child replaces
\* an earlier one with the same key (lines 492-512).
LastWithKey(children, k) ==
  CHOOSE c \in children :
    /\ _Key(c) = k
    /\ \A d \in children : _Key(d) = k => d.index <= c.index
KeyedChildren(children) ==
  Filled([k \in { _Key(c) : c \in children } |-> LastWithKey(children, k)])
NewOceanChunks(radius, minCellSize, cameraPosition) ==
  KeyedChildren(OceanChildren(CubeQuadTreeChildren(radius, minCellSize, cameraPosition)))

\* RecycleAll(chunks, newOceanChunks) recycles every chunk,
\* RecycleNothing(chunks, newOceanChunks) none.
RecycleAll(chunks, newOceanChunks) == Values(chunks)
RecycleNothing(chunks, newOceanChunks) == {}
\* recycle (lines 516-518).
Recycle(chunks, newOceanChunks) == Values(DictDifference(chunks, newOceanChunks))

\* GroupRemoveNothing(children, meshes) detaches nothing.
GroupRemoveNothing(children, meshes) == children
\* group.remove(mesh) for the given meshes (lines 205, 523).
GroupRemove(children, meshes) == children \ meshes
\* group.add(mesh) (line 435).
GroupAdd(children, meshes) == children \cup meshes

\* The groups after the meshes of `chunks` (chunk records) were removed.
GroupsWithout(groups, chunks) ==
  [i \in DOMAIN groups |->
     GroupRemove(groups[i], { c.mesh : c \in { r \in chunks : r.group = i /\ Has(r, "mesh") } })]
GroupsWith(groups, chunks) ==
  [i \in DOMAIN groups |->
     GroupAdd(groups[i], { c.mesh : c \in { r \in chunks : r.group = i } })]

\* The entry stored for a new key (lines 532-550).
NewChunkEntry(child, chunk) ==
  [position |-> <<child.position[1], child.position[3]>>, group |-> child.group,
   transform |-> child.transform, mesh |-> chunk.mesh, geometry |-> chunk.geometry,
   origin |-> chunk.origin]
CreatedChunk(child, fresh, shape, oceanRadius, center) ==
  CreateOceanChunk(child.group, child.transform, child.position, child.size,
                   QT_MIN_CELL_RESOLUTION, fresh, shape, oceanRadius, center)
CreatedEntries(difference, epoch, shape, oceanRadius, center) ==
  Filled([k \in DOMAIN difference |->
            NewChunkEntry(difference[k],
                          CreatedChunk(difference[k], <<epoch, k>>, shape, oceanRadius, center))])

\* The geometries disposed with the given chunks (lines 206-208, 522-525).
DisposedWith(chunks) == { c.geometry : c \in { r \in chunks : Has(r, "mesh") } }
\* The resources allocated with the created entries (lines 218, 430).
AllocatedWith(entries) ==
  { e.geometry : e \in Values(entries) }
    \cup { e.mesh.material : e \in { r \in Values(entries) : r.mesh.material # SharedMaterial } }

\* mesh.position = origin - cameraPosition for the mesh of every entry
\* (lines 452-461).
MeshPositions(chunks, cameraPosition) ==
  Filled([k \in { j \in DOMAIN chunks : Has(chunks[j], "mesh") /\ Has(chunks[j], "origin") } |->
            VSub(chunks[k].origin, cameraPosition)])

(***************************************************************************)
(* Terrain chunk manager.  terrain.js is outside this source tree; the     *)
(* manager is modelled from its specification: the per-frame Update        *)
(* (query, diff, recycle, submit, reposition, ready) and the completion    *)
(* of asynchronous builds on a fixed-size worker pool, which may arrive    *)
(* in another order than they were requested.                              *)
(***************************************************************************)
TerrainRadius == 4000
TerrainMinNodeSize == 4000
PoolSize == 2
MaxTerrainUpdates == 2
MaxCompletions == 5
TerrainCameraPositions == { <<0, 0, 9000>>, <<9000, 0, 0>>, <<12000, 12000, 12000>> }
TerrainParamsSet ==
  { [shape |-> "planet", center |-> <<0, 0, 0>>, async |-> TRUE],
    [shape |-> "ring", center |-> <<10000, 0, 0>>, async |-> TRUE],
    [shape |-> "planet", center |-> <<0, 0, 0>>, async |-> FALSE] }

\* Step 1: the keyed leaves of the quadtree query.
TerrainLeaves(shape, cameraPosition, center) ==
  NewOceanChunks(TerrainRadius, TerrainMinNodeSize,
                 OceanQueryPosition(shape, cameraPosition, center))

\* The order in which an Update submits its new keys: by face, then by
\* position, then by size.
KeyBefore(a, b) ==
  \/ a[4] < b[4]
  \/ a[4] = b[4] /\ a[1] < b[1]
  \/ a[4] = b[4] /\ a[1] = b[1] /\ a[2] < b[2]
  \/ a[4] = b[4] /\ a[1] = b[1] /\ a[2] = b[2] /\ a[3] < b[3]
FirstKey(keys) == CHOOSE k \in keys : \A j \in keys \ {k} : KeyBefore(k, j)
RECURSIVE KeysInOrder(_)
KeysInOrder(keys) ==
  IF keys = {} THEN << >> ELSE <<FirstKey(keys)>> \o KeysInOrder(keys \ {FirstKey(keys)})

\* A build request for a new leaf, and the chunk a build result becomes.
BuildRequest(key, child, epoch) == [key |-> key, child |-> child, epoch |-> epoch]
Requests(leaves, keys, epoch) ==
  [n \in 1..Len(keys) |-> BuildRequest(keys[n], leaves[keys[n]], epoch)]
BuiltChunk(r, shape, center) ==
  [group |-> r.child.group, transform |-> r.child.transform, bounds |-> r.child.bounds,
   mesh |-> [mesh |-> <<r.epoch, r.key>>], geometry |-> [geometry |-> <<r.epoch, r.key>>],
   origin |-> OceanWorldCenter(shape, r.child.transform, r.child.position, TerrainRadius,
                               center)]
BuiltChunks(requests, shape, center) ==
  Filled([k \in { requests[n].key : n \in DOMAIN requests } |->
            BuiltChunk(CHOOSE r \in { requests[n] : n \in DOMAIN requests } : r.key = k,
                       shape, center)])

\* The pool takes requests from the head of the queue while it has a free
\* worker.
Dispatched(queue, inFlight) == Min2(Len(queue), PoolSize - Cardinality(inFlight))
InFlightAfter(queue, inFlight) ==
  inFlight \cup { queue[n] : n \in 1..Dispatched(queue, inFlight) }
QueueAfter(queue, inFlight) == SubSeq(queue, Dispatched(queue, inFlight) + 1, Len(queue))

\* MaterializesAnyResult(key, desired) takes every result.
MaterializesAnyResult(key, desired) == TRUE
\* Step 4, on completion: the result becomes a mesh only if its key is
\* still desired.
MaterializesResult(key, desired) == key \in desired

(***************************************************************************)
(* SceneryController._GetTerrainHeight: the ring height mask               *)
(***************************************************************************)
SceneryDefaultLatCutoff == 2000
SceneryDefaultLatFade == 5000
SceneryDefaultDropExponent == 3

\* a || b on a number: b when a is undefined or 0.
OrDefault(rec, f, default) == IF Has(rec, f) /\ rec[f] # 0 THEN rec[f] ELSE default

SceneryLatCutoff(sp) == OrDefault(sp, "latCutoff", SceneryDefaultLatCutoff)
SceneryLatFade(sp) == OrDefault(sp, "latFade", SceneryDefaultLatFade)
SceneryDropExponent(sp) == OrDefault(sp, "dropExponent", SceneryDefaultDropExponent)

\* heightMask of _GetTerrainHeight at the given latitude (lines 1470-1480).
SceneryHeightMask(sp, latitudeValue) ==
  MaskOne - PowHalves(
    Min2(MaskOne,
         Max2(0, Div((latitudeValue - Max2(0, Min2(LatOne, SceneryLatCutoff(sp)))) * MaskOne,
                     Max2(LatFadeMin, SceneryLatFade(sp))))),
    SceneryDropExponent(sp))

\* The params of a ring build with the given shapeParams, as Rebuild reads them.
RingParams(sp) == [shape |-> "ring", shapeParams |-> sp]

\* The ring of the latitude-fade scenario.
ScenarioShapeParams == [latCutoff |-> 2000, latFade |-> 5000, dropExponent |-> 3]

\* shapeParams handed to both computations: those of the builds, and ones
\* with a zero cutoff, a zero fade, a zero exponent, a negative exponent.
MaskShapeParamsSet ==
  ShapeParamsSet \cup
  { [latCutoff |-> 0, latFade |-> 5000, dropExponent |-> 3],
    [latCutoff |-> 2000, latFade |-> 0, dropExponent |-> 3],
    [latCutoff |-> 2000, latFade |-> 5000, dropExponent |-> 0],
    [latCutoff |-> 2000, latFade |-> 5000, dropExponent |-> -2],
    [dropExponent |-> -3] }
\* Latitudes |y| of the unit direction, in 1/LatOne.
MaskLatitudes ==
  {0, 1000, 2000, 2001, 4500, 6999, 7000, 10000, 25000, 30000, 40000, 50000, 100000}

(***************************************************************************)
(* ProceduralTerrain_Demo, SceneManager and the intro camera track         *)
(***************************************************************************)
MaxSteps == 4
\* Query strings of the URL, as the name/value pairs URLSearchParams reads:
\* none, the three scene types, other values (another case, an empty value,
\* another word), another parameter only, and the scene parameter twice.
UrlSearches ==
  { << >>,
    << <<"scene", "planet">> >>, << <<"scene", "ring">> >>, << <<"scene", "both">> >>,
    << <<"scene", "Planet">> >>, << <<"scene", "">> >>, << <<"scene", "moon">> >>,
    << <<"debug", "ring">> >>,
    << <<"debug", "1">>, <<"scene", "ring">> >>,
    << <<"scene", "planet">>, <<"scene", "ring">> >> }

\* URLSearchParams.get(name): the value of the first pair of that name, or
\* null (found = FALSE) when there is none.
UrlGet(search, name) ==
  IF \E i \in DOMAIN search : search[i][1] = name
    THEN [found |-> TRUE,
          value |-> search[CHOOSE i \in DOMAIN search :
                             /\ search[i][1] = name
                             /\ \A j \in 1..(i - 1) : search[j][1] # name][2]]
    ELSE [found |-> FALSE, value |-> ""]

\* Frame times handed to _OnStep and to the entities, in seconds.
FrameTimes == {1, 2}

\* Variant of GetSceneTypeFromURL that returns the parameter unvalidated.
GetSceneTypeUnvalidated(search) ==
  IF UrlGet(search, "scene").found THEN UrlGet(search, "scene").value ELSE "both"

\* SceneManager.GetSceneTypeFromURL.
GetSceneTypeFromURL(search) ==
  IF UrlGet(search, "scene").found /\ UrlGet(search, "scene").value \in {"planet", "ring", "both"}
    THEN UrlGet(search, "scene").value
    ELSE "both"
\* SceneManager.InitializeScene: which managers it creates.
InitializeScene(sceneType) ==
  [terrain |-> sceneType \in {"planet", "both"}, ringworld |-> sceneType \in {"ring", "both"}]
\* SceneManager.GetCameraTrackDuration.
GetCameraTrackDuration(sceneType) ==
  IF sceneType = "planet" THEN 6 ELSE IF sceneType = "both" THEN 3 ELSE 0

\* new CameraTrack(params): _paused is params.paused when given, else false.
CameraTrack(params) ==
  [exists |-> TRUE, paused |-> IF Has(params, "paused") THEN params.paused ELSE FALSE,
   currentTime |-> 0]
\* Variant of CameraTrackUpdates in which Update does not look at _paused.
CameraTrackUpdatesAlways(track) == TRUE
\* _CameraTrack.Update goes past its early return.
CameraTrackUpdates(track) == ~track.paused
\* The position Update gives the camera: the spline at the eased time,
\* identified by the track time it is taken at.
CameraTrackPosition(currentTime, maxTime) == <<"track", Min2(currentTime, maxTime)>>

(***************************************************************************)
(* _FPSControls: the first-person controller                               *)
(*                                                                         *)
(* Times are in 1/TicksPerSecond seconds, accelerations in halves (the     *)
(* step of every adjustment), velocities in 1/TicksPerSecond units per     *)
(* second and camera positions in 1/(TicksPerSecond^2) units.  The camera  *)
(* quaternion is carried as the images <<x, y, z>> of the three axes, and  *)
(* looks turn it by quarter turns.                                         *)
(***************************************************************************)
TicksPerSecond == 20
MinAcceleration == 8
MaxAcceleration == 48
InitialAcceleration == 24
AccelerationStep == 1
Decceleration == -10
TriggerStepInterval == 2
\* The mouse movement, in pixels, that turns the camera a quarter turn at
\* the sensitivity of 0.005 radians per pixel.
MouseQuarterTurn == 314

IdentityQuaternion == << <<1, 0, 0>>, <<0, 1, 0>>, <<0, 0, 1>> >>

NoMove ==
  [forward |-> FALSE, backward |-> FALSE, left |-> FALSE, right |-> FALSE,
   up |-> FALSE, down |-> FALSE, rotateLeft |-> FALSE, rotateRight |-> FALSE]

\* navigator.getGamepads() without a connected gamepad, and a connected one
\* with its left stick (after the dead zone), triggers and d-pad.
NoGamepad ==
  [connected |-> FALSE, leftStickX |-> 0, leftStickY |-> 0, leftTrigger |-> FALSE,
   rightTrigger |-> FALSE, dpadUp |-> FALSE, dpadDown |-> FALSE]
Gamepad(leftStickX, leftStickY, leftTrigger, rightTrigger, dpadUp) ==
  [connected |-> TRUE, leftStickX |-> leftStickX, leftStickY |-> leftStickY,
   leftTrigger |-> leftTrigger, rightTrigger |-> rightTrigger, dpadUp |-> dpadUp,
   dpadDown |-> FALSE]

Sign(a) == IF a < 0 THEN -1 ELSE IF a > 0 THEN 1 ELSE 0

RECURSIVE Pow2(_)
Pow2(n) == IF n = 0 THEN 1 ELSE 2 * Pow2(n - 1)
\* 2 ** a for a in halves; 2 ** 0.5 is taken as 1 + 53/128.
Pow2Halves(h) ==
  IF h % 2 = 0 THEN Pow2(h \div 2) ELSE Pow2(h \div 2) + (Pow2(h \div 2) * 53) \div 128

\* Variant of _onKeyDown with W and S setting the flag of their own name.
KeyDownNamed(move, keyCode) ==
  IF keyCode \in {38, 87} THEN [move EXCEPT !.backward = FALSE, !.forward = TRUE]
  ELSE IF keyCode \in {37, 65} THEN [move EXCEPT !.left = TRUE]
  ELSE IF keyCode \in {40, 83} THEN [move EXCEPT !.forward = FALSE, !.backward = TRUE]
  ELSE IF keyCode \in {39, 68} THEN [move EXCEPT !.right = TRUE]
  ELSE IF keyCode = 33 THEN [move EXCEPT !.up = TRUE]
  ELSE IF keyCode = 34 THEN [move EXCEPT !.down = TRUE]
  ELSE IF keyCode = 81 THEN [move EXCEPT !.rotateRight = TRUE]
  ELSE IF keyCode = 69 THEN [move EXCEPT !.rotateLeft = TRUE]
  ELSE move

\* _onKeyDown: this._move after the key.
_onKeyDown(move, keyCode) ==
  IF keyCode \in {38, 87} THEN [move EXCEPT !.forward = FALSE, !.backward = TRUE]
  ELSE IF keyCode \in {37, 65} THEN [move EXCEPT !.left = TRUE]
  ELSE IF keyCode \in {40, 83} THEN [move EXCEPT !.backward = FALSE, !.forward = TRUE]
  ELSE IF keyCode \in {39, 68} THEN [move EXCEPT !.right = TRUE]
  ELSE IF keyCode = 33 THEN [move EXCEPT !.up = TRUE]
  ELSE IF keyCode = 34 THEN [move EXCEPT !.down = TRUE]
  ELSE IF keyCode = 81 THEN [move EXCEPT !.rotateRight = TRUE]
  ELSE IF keyCode = 69 THEN [move EXCEPT !.rotateLeft = TRUE]
  ELSE move

\* _onKeyUp: this._move after the key.
_onKeyUp(move, keyCode) ==
  IF keyCode \in {38, 87} THEN [move EXCEPT !.forward = FALSE, !.backward = FALSE]
  ELSE IF keyCode \in {37, 65} THEN [move EXCEPT !.left = FALSE]
  ELSE IF keyCode \in {40, 83} THEN [move EXCEPT !.backward = FALSE, !.forward = FALSE]
  ELSE IF keyCode \in {39, 68} THEN [move EXCEPT !.right = FALSE]
  ELSE IF keyCode = 33 THEN [move EXCEPT !.up = FALSE]
  ELSE IF keyCode = 34 THEN [move EXCEPT !.down = FALSE]
  ELSE IF keyCode = 81 THEN [move EXCEPT !.rotateRight = FALSE]
  ELSE IF keyCode = 69 THEN [move EXCEPT !.rotateLeft = FALSE]
  ELSE move

\* Variant of ClampAcceleration without the clamp.
UnclampedAcceleration(current, change) == current + change

\* Math.max(_minAcceleration, Math.min(_maxAcceleration, current + change)).
ClampAcceleration(current, change) ==
  Max2(MinAcceleration, Min2(MaxAcceleration, current + change))

\* Variant of LockChangeEnabled that leaves _enabled set when the lock is lost.
LockChangeKeepsEnabled(enabled, isTouchDevice, pointerLockElement) ==
  IF pointerLockElement = "body" THEN TRUE ELSE enabled

\* lockChange of _SetupPointerLock: _enabled after the event.
LockChangeEnabled(enabled, isTouchDevice, pointerLockElement) ==
  IF pointerLockElement = "body" THEN TRUE
  ELSE IF ~isTouchDevice THEN FALSE
  ELSE enabled

\* v turned a quarter turn about the unit axis k; s is the sine of the angle.
RotateQuarter(v, k, s) ==
  <<s * VCross(k, v)[1] + k[1] * VDot(k, v),
    s * VCross(k, v)[2] + k[2] * VDot(k, v),
    s * VCross(k, v)[3] + k[3] * VDot(k, v)>>
\* quaternion.premultiply(setFromAxisAngle(axis, angle)) for a quarter turn.
Premultiply(q, axis, s) ==
  IF s = 0 THEN q
  ELSE <<RotateQuarter(q[1], axis, s), RotateQuarter(q[2], axis, s),
         RotateQuarter(q[3], axis, s)>>
\* The yaw of _OnMouseMove: about the camera's y axis by -movementX.
Yaw(q, movementX) == Premultiply(q, q[2], -Sign(movementX))
\* The pitch of _OnMouseMove: about the camera's x axis by -movementY.
Pitch(q, movementY) == Premultiply(q, q[1], -Sign(movementY))

\* The movement flags _UpdateGamepadInput sets from the left stick and the
\* d-pad, and the roll flags from the shoulder buttons (not pressed).
GamepadMove(move, gamepad) ==
  IF ~gamepad.connected THEN move
  ELSE [forward |-> gamepad.leftStickY > 0, backward |-> gamepad.leftStickY < 0,
        left |-> gamepad.leftStickX < 0, right |-> gamepad.leftStickX > 0,
        up |-> gamepad.dpadUp, down |-> gamepad.dpadDown,
        rotateLeft |-> FALSE, rotateRight |-> FALSE]

\* _gamepadTriggerStepDelay after the trigger block of _UpdateGamepadInput.
TriggerDelayAfter(delay, gamepad, timeInSeconds) ==
  IF ~gamepad.connected THEN delay
  ELSE IF ~(gamepad.leftTrigger \/ gamepad.rightTrigger) THEN 0
  ELSE IF delay + timeInSeconds >= TriggerStepInterval THEN 0
  ELSE delay + timeInSeconds

\* accelerationChange of the trigger block: a step once the delay reaches
\* the interval, down for the left trigger alone, up for the right alone.
TriggerChange(delay, gamepad, timeInSeconds) ==
  IF gamepad.connected /\ (gamepad.leftTrigger \/ gamepad.rightTrigger)
     /\ delay + timeInSeconds >= TriggerStepInterval
    THEN IF gamepad.leftTrigger /\ ~gamepad.rightTrigger THEN -AccelerationStep
         ELSE IF gamepad.rightTrigger /\ ~gamepad.leftTrigger THEN AccelerationStep
         ELSE 0
    ELSE 0

Flag(b, amount) == IF b THEN amount ELSE 0

\* Variant of VelocityAfter with the signs of the forward and backward flags
\* exchanged.
VelocityAfterFlagsSwapped(velocity, move, acceleration, timeInSeconds) ==
  <<velocity[1] + Div(velocity[1] * Decceleration * timeInSeconds, TicksPerSecond)
      - Flag(move.left, Pow2Halves(acceleration[1]) * timeInSeconds)
      + Flag(move.right, Pow2Halves(acceleration[1]) * timeInSeconds),
    velocity[2] + Div(velocity[2] * Decceleration * timeInSeconds, TicksPerSecond)
      + Flag(move.up, Pow2Halves(acceleration[2]) * timeInSeconds)
      - Flag(move.down, Pow2Halves(acceleration[2]) * timeInSeconds),
    velocity[3] + Div(velocity[3] * Decceleration * timeInSeconds, TicksPerSecond)
      + Flag(move.forward, Pow2Halves(acceleration[3]) * timeInSeconds)
      - Flag(move.backward, Pow2Halves(acceleration[3]) * timeInSeconds)>>

\* _velocity after the deceleration and the movement flags of Update.
VelocityAfter(velocity, move, acceleration, timeInSeconds) ==
  <<velocity[1] + Div(velocity[1] * Decceleration * timeInSeconds, TicksPerSecond)
      - Flag(move.left, Pow2Halves(acceleration[1]) * timeInSeconds)
      + Flag(move.right, Pow2Halves(acceleration[1]) * timeInSeconds),
    velocity[2] + Div(velocity[2] * Decceleration * timeInSeconds, TicksPerSecond)
      + Flag(move.up, Pow2Halves(acceleration[2]) * timeInSeconds)
      - Flag(move.down, Pow2Halves(acceleration[2]) * timeInSeconds),
    velocity[3] + Div(velocity[3] * Decceleration * timeInSeconds, TicksPerSecond)
      - Flag(move.forward, Pow2Halves(acceleration[3]) * timeInSeconds)
      + Flag(move.backward, Pow2Halves(acceleration[3]) * timeInSeconds)>>

\* forward, sideways and updown of Update: (0, 0, -1), (1, 0, 0) and
\* (0, 1, 0) turned by the camera quaternion.
ForwardVector(q) == VNeg(q[3])
SideVector(q) == q[1]
UpVector(q) == q[2]

\* camera.position after the three addScaledVector calls of Update.
PositionAfter(position, q, velocity, timeInSeconds) ==
  <<position[1] + ForwardVector(q)[1] * velocity[3] * timeInSeconds
       + SideVector(q)[1] * velocity[1] * timeInSeconds
       + UpVector(q)[1] * velocity[2] * timeInSeconds,
    position[2] + ForwardVector(q)[2] * velocity[3] * timeInSeconds
       + SideVector(q)[2] * velocity[1] * timeInSeconds
       + UpVector(q)[2] * velocity[2] * timeInSeconds,
    position[3] + ForwardVector(q)[3] * velocity[3] * timeInSeconds
       + SideVector(q)[3] * velocity[1] * timeInSeconds
       + UpVector(q)[3] * velocity[2] * timeInSeconds>>

\* Inputs.
MaxFpsEvents == 5
KeyCodes == {87, 83, 65, 68, 33, 34}
MouseMovements == {<<MouseQuarterTurn, 0>>, <<0, -MouseQuarterTurn>>, <<0, 0>>}
WheelDeltas == {-100, 0, 100}
FpsFrameTimes == {1, 2}
PointerLockElements == {"none", "body", "canvas"}
StickGamepads == {NoGamepad, Gamepad(0, 0, FALSE, FALSE, FALSE), Gamepad(0, -1, FALSE, FALSE, TRUE)}
TriggerGamepads ==
  {NoGamepad, Gamepad(0, 0, FALSE, FALSE, FALSE), Gamepad(0, 0, TRUE, FALSE, FALSE),
   Gamepad(0, 0, FALSE, TRUE, FALSE), Gamepad(0, 0, TRUE, TRUE, FALSE)}

(***************************************************************************)
(* SceneryController (ocean.js, lines 1034-1842): scenery placed on the    *)
(* terrain chunks near the camera.  Lengths are whole world units; the     *)
(* planet shape is modelled.  The chunks come from the terrain manager's   *)
(* GetChunks(): an object whose keys are visited in insertion order, here  *)
(* a sequence of [key, bounds, face] records.                              *)
(***************************************************************************)
SceneryGridSize == 15
MaxSceneryDistance == 1000
\* _sceneryPerChunk: 100 in the constructor, kept small so that a chunk is
\* finished within a few Updates.
SceneryPerChunk == 4
TreeRatio == 60
RockRatio == 25
MaxSceneryPerFrame == 1
\* terrain_constants.QT_MIN_CELL_SIZE as the scenery code reads it ("10 * 25").
SceneryMinCellSize == 25
LodThresholdFactor == 20
SceneryRadius == 4000
SceneryCenter == <<0, 0, 0>>
SceneryNoiseSeed == 1

RandomMultiplier == 9301
RandomIncrement == 49297
RandomModulus == 233280
Int32Half == 65536

MapSet(f, k, v) == [x \in (DOMAIN f) \cup {k} |-> IF x = k THEN v ELSE f[x]]
MapKeep(f, keys) == [x \in (DOMAIN f) \cap keys |-> f[x]]
MapGet(f, k, default) == IF k \in DOMAIN f THEN f[k] ELSE default

\* The characters of `${n}` for a whole number n, as char codes.
RECURSIVE DigitCodes(_)
DigitCodes(n) == IF n < 10 THEN <<48 + n>> ELSE Append(DigitCodes(n \div 10), 48 + (n % 10))
NumberCodes(n) == IF n < 0 THEN <<45>> \o DigitCodes(-n) ELSE DigitCodes(n)

\* chunkSeed = `${chunkCenter.x},${chunkCenter.y},${chunkCenter.z}` (line 1624).
ChunkSeedString(chunkCenter) ==
  NumberCodes(chunkCenter[1]) \o <<44>> \o NumberCodes(chunkCenter[2]) \o <<44>>
    \o NumberCodes(chunkCenter[3])

\* (seedValue << 5) - seedValue + code, converted to a 32-bit integer
\* (lines 1627-1628): the 32 bits are computed in two 16-bit halves.
HashStep(seedValue, code) ==
  LET lo == (seedValue % Int32Half) * 31 + code
      hi == (((seedValue \div Int32Half) % Int32Half) * 31 + (lo \div Int32Half)) % Int32Half
  IN  IF hi >= Int32Half \div 2
      THEN (hi - Int32Half) * Int32Half + (lo % Int32Half)
      ELSE hi * Int32Half + (lo % Int32Half)

RECURSIVE HashCodes(_, _)
HashCodes(seedValue, codes) ==
  IF codes = << >> THEN seedValue ELSE HashCodes(HashStep(seedValue, Head(codes)), Tail(codes))

\* The starting seed of a chunk: Math.abs of the hash (line 1632).  Math.abs
\* of -2^31 is 2^31, which the generator takes modulo RandomModulus.
ChunkSeed(chunkCenter) ==
  LET seedValue == HashCodes(0, ChunkSeedString(chunkCenter))
  IN  IF seedValue < -2147483647 THEN 141248 ELSE Abs(seedValue)

\* seededRandom (lines 1633-1636): the new seed; the number returned is
\* seed / RandomModulus.  seed * 9301 is computed as (seed * 93) * 100 + seed.
SeededRandom(seed) ==
  LET s == seed % RandomModulus
  IN  ((((s * (RandomMultiplier \div 100)) % RandomModulus) * 100)
        + s * (RandomMultiplier % 100) + RandomIncrement) % RandomModulus

\* The seed after n calls of seededRandom.
RECURSIVE Advance(_, _)
Advance(seed, n) == IF n = 0 THEN seed ELSE Advance(SeededRandom(seed), n - 1)

\* (seededRandom() - 0.5) * chunkSize (lines 1655-1656).
LocalOffset(seed, chunkSize) == Div((2 * seed - RandomModulus) * chunkSize, 2 * RandomModulus)

\* rand < treeRatio, rand < treeRatio + rockRatio (lines 1728-1737).
SceneryTypeOf(seed) ==
  IF seed * 100 < TreeRatio * RandomModulus THEN "tree"
  ELSE IF seed * 100 < (TreeRatio + RockRatio) * RandomModulus THEN "rock"
  ELSE "bush"

\* normalize, scale by the radius, add the centre (lines 1578-1600, 1664-1690).
SceneryProject(face, localPos) ==
  VAdd(VScale(VNormalize(OceanApplyMatrix4(FaceTransform(face, SceneryRadius), localPos)),
              SceneryRadius, DirOne),
       SceneryCenter)

\* Math.round(x / grid) * grid (lines 1693-1701).
GridRound(x) == ((2 * x + SceneryGridSize) \div (2 * SceneryGridSize)) * SceneryGridSize
WorldPosKey(worldPos) == <<GridRound(worldPos[1]), GridRound(worldPos[2]), GridRound(worldPos[3])>>

\* a.distanceTo(b) > _maxSceneryDistance.
TooFar(a, b) == VDot(VSub(a, b), VSub(a, b)) > MaxSceneryDistance * MaxSceneryDistance

\* _noise.Get at a world position, in world units.
SceneryNoiseGet(w) == NoiseGet(SceneryNoiseSeed, w[1], w[2], w[3]) \div PosOne

\* _GetTerrainHeight, planet branch (lines 1449-1462, 1506-1511).
GetTerrainHeight(worldPosition) ==
  VAdd(VScale(VNormalize(VSub(worldPosition, SceneryCenter)),
              SceneryRadius + SceneryNoiseGet(worldPosition), DirOne),
       SceneryCenter)

\* chunk.bounds.getSize(dimensions).x (lines 1558-1560).
ChunkSizeOf(chunk) == Box3Size(chunk.bounds)[1]
LodThreshold == SceneryMinCellSize * LodThresholdFactor
\* Math.floor(_sceneryPerChunk * (chunkSize / (minSize * 20))) (lines 1616-1618).
NumScenery(chunk) == (SceneryPerChunk * ChunkSizeOf(chunk)) \div LodThreshold

\* The size and distance filters of a chunk (lines 1568-1607).
PassesFilters(chunk, cameraPosition) ==
  /\ ChunkSizeOf(chunk) >= LodThreshold
  /\ ~TooFar(cameraPosition, SceneryProject(chunk.face, Box3Center(chunk.bounds)))

\* The key of a chunk in GetChunks().
ChunkKey(cx, cy, size, face) == <<cx, cy, size, face>>
TerrainChunk(cx, cy, size, face) ==
  [key |-> ChunkKey(cx, cy, size, face), bounds |-> Box3(cx, cy, size), face |-> face]
ChunkKeys(chunks) == {chunks[i].key : i \in DOMAIN chunks}

\* The controller's collections as one record.
SceneryCollections(byWorldPos, typeByWorldPos, scene, objectsByNode, progress, processed, trace) ==
  [byWorldPos |-> byWorldPos, typeByWorldPos |-> typeByWorldPos, scene |-> scene,
   objectsByNode |-> objectsByNode, progress |-> progress, processed |-> processed,
   created |-> << >>, trace |-> trace]

\* One candidate: two calls of seededRandom, the local and the world
\* position, the grid key (lines 1655-1704).
Candidate(chunk, seed) ==
  LET sx == SeededRandom(seed)
      sy == SeededRandom(sx)
      localPos == VAdd(<<LocalOffset(sx, ChunkSizeOf(chunk)), LocalOffset(sy, ChunkSizeOf(chunk)), 0>>,
                       Box3Center(chunk.bounds))
      worldPos == SceneryProject(chunk.face, localPos)
  IN  [seed |-> sy, localPos |-> localPos, worldPos |-> worldPos, key |-> WorldPosKey(worldPos)]

\* The attempt loop of one chunk (lines 1648-1748).  l holds the loop's
\* variables: i, seed, spawned (scenerySpawnedThisFrame), attempted
\* (sceneryAttemptedThisFrame), the candidates made, and the collections c.
RECURSIVE SpawnLoop(_, _, _, _)
SpawnLoop(chunk, cameraPosition, maxSceneryPerFrame, l) ==
  IF ~(l.i < NumScenery(chunk) /\ l.spawned < maxSceneryPerFrame) THEN l
  ELSE
    LET cand == Candidate(chunk, l.seed)
        rand == SeededRandom(cand.seed)
        tried == [l EXCEPT !.i = @ + 1, !.attempted = @ + 1, !.seed = cand.seed]
        made(outcome) == [localPos |-> cand.localPos, key |-> cand.key, outcome |-> outcome]
    IN  IF cand.key \in DOMAIN l.c.byWorldPos
        THEN SpawnLoop(chunk, cameraPosition, maxSceneryPerFrame,
                       [tried EXCEPT !.candidates = Append(@, made("exists"))])
        ELSE IF TooFar(cameraPosition, cand.worldPos)
        THEN SpawnLoop(chunk, cameraPosition, maxSceneryPerFrame,
                       [tried EXCEPT !.candidates = Append(@, made("far"))])
        ELSE SpawnLoop(chunk, cameraPosition, maxSceneryPerFrame,
               [tried EXCEPT
                  !.seed = rand,
                  !.spawned = @ + 1,
                  !.candidates = Append(@, made(SceneryTypeOf(rand))),
                  !.c = [@ EXCEPT
                     !.byWorldPos =
                        MapSet(@, cand.key, [position |-> GetTerrainHeight(cand.worldPos),
                                             mesh |-> SceneryTypeOf(rand)]),
                     !.typeByWorldPos = MapSet(@, cand.key, SceneryTypeOf(rand)),
                     !.scene = @ \cup {cand.key},
                     !.objectsByNode = @ \cup {chunk.key},
                     !.created = Append(@, [chunk |-> chunk.key, key |-> cand.key])]])

\* totalAttempted (lines 1751-1752).
AttemptsNotCounted(sceneryAttemptedSoFar, sceneryAttemptedThisFrame) == sceneryAttemptedSoFar
TotalAttempted(sceneryAttemptedSoFar, sceneryAttemptedThisFrame) ==
  sceneryAttemptedSoFar + sceneryAttemptedThisFrame

\* The body of the loop over the chunks, for one chunk (lines 1554-1759).
ProcessChunk(chunk, cameraPosition, maxSceneryPerFrame, c) ==
  IF \/ ~PassesFilters(chunk, cameraPosition)
     \/ chunk.key \in c.processed
  THEN c
  ELSE
    LET sceneryAttemptedSoFar == MapGet(c.progress, chunk.key, 0)
        l == SpawnLoop(chunk, cameraPosition, maxSceneryPerFrame,
                       [i |-> sceneryAttemptedSoFar,
                        seed |-> Advance(ChunkSeed(Box3Center(chunk.bounds)), sceneryAttemptedSoFar),
                        spawned |-> 0, attempted |-> 0, candidates |-> << >>, c |-> c])
        totalAttempted == TotalAttempted(sceneryAttemptedSoFar, l.attempted)
    IN  [l.c EXCEPT
           !.progress = MapSet(@, chunk.key, totalAttempted),
           !.processed = IF totalAttempted >= NumScenery(chunk) THEN @ \cup {chunk.key} ELSE @,
           !.trace = MapSet(@, chunk.key, MapGet(@, chunk.key, << >>) \o l.candidates)]

RECURSIVE ProcessChunks(_, _, _, _, _)
ProcessChunks(chunks, i, cameraPosition, maxSceneryPerFrame, c) ==
  IF i > Len(chunks) THEN c
  ELSE ProcessChunks(chunks, i + 1, cameraPosition, maxSceneryPerFrame,
                     ProcessChunk(chunks[i], cameraPosition, maxSceneryPerFrame, c))

\* worldPosToRemove (lines 1764-1775).
HalfwayWorldPosToRemove(byWorldPos, cameraPosition) ==
  {k \in DOMAIN byWorldPos :
     TooFar(cameraPosition, VAdd(byWorldPos[k].position, VSub(byWorldPos[k].position, cameraPosition)))}
WorldPosToRemove(byWorldPos, cameraPosition) ==
  {k \in DOMAIN byWorldPos : TooFar(cameraPosition, byWorldPos[k].position)}

\* The bookkeeping keys that stay (lines 1795-1815).
StaleKeysKept(keys, currentChunks) == keys
LiveKeys(keys, currentChunks) == keys \cap currentChunks

\* The clean-up at the end of Update (lines 1761-1815).
SceneryCleanup(c, cameraPosition, currentChunks) ==
  LET kept == (DOMAIN c.byWorldPos) \ WorldPosToRemove(c.byWorldPos, cameraPosition)
  IN  [c EXCEPT
         !.byWorldPos = MapKeep(@, kept),
         !.typeByWorldPos = MapKeep(@, kept),
         !.scene = @ \cap kept,
         !.objectsByNode = LiveKeys(@, currentChunks),
         !.processed = LiveKeys(@, currentChunks),
         !.progress = MapKeep(@, LiveKeys(DOMAIN @, currentChunks)),
         !.trace = MapKeep(@, LiveKeys(DOMAIN @, currentChunks))]

\* Update while enabled (lines 1539-1816), as a function of the collections.
SceneryUpdated(c, chunks, cameraPosition, maxSceneryPerFrame) ==
  SceneryCleanup(ProcessChunks(chunks, 1, cameraPosition, maxSceneryPerFrame, c),
                 cameraPosition, ChunkKeys(chunks))

\* The candidates of a chunk when all its attempts are made in one Update
\* that starts with no scenery.
SinglePassCandidates(chunk, cameraPosition) ==
  SpawnLoop(chunk, cameraPosition, NumScenery(chunk),
            [i |-> 0, seed |-> ChunkSeed(Box3Center(chunk.bounds)), spawned |-> 0,
             attempted |-> 0, candidates |-> << >>,
             c |-> SceneryCollections(<< >>, << >>, {}, {}, << >>, {}, << >>)]).candidates

(***************************************************************************)
(* The terrain the scenery is placed on: chunks of the +z face around its  *)
(* middle, and camera positions above it.                                  *)
(***************************************************************************)
SceneryFace == 2
ParentChunk == TerrainChunk(0, 0, 1000, SceneryFace)
ChildChunks ==
  <<TerrainChunk(-250, -250, 500, SceneryFace), TerrainChunk(250, -250, 500, SceneryFace),
    TerrainChunk(-250, 250, 500, SceneryFace), TerrainChunk(250, 250, 500, SceneryFace)>>
SmallChunk == TerrainChunk(125, 125, 250, SceneryFace)
FarChunk == TerrainChunk(3000, 0, 500, SceneryFace)
ChunkSets ==
  { <<ParentChunk>>,
    ChildChunks,
    <<ChildChunks[4], SmallChunk, FarChunk>>,
    << >> }
CameraPositions == { <<0, 0, 4010>>, <<600, 600, 3950>>, <<0, 0, 5500>> }

(***************************************************************************)
(* State                                                                   *)
(***************************************************************************)
VARIABLES
  bParams,      \* Rebuild under test: this._params after Init
  bPc,          \* "init" before Rebuild, "done" after it returned
  bTrace,       \* the intermediate arrays of that Rebuild
  bOut,         \* the arrays it returned
  chunkParams,  \* worker: _CHUNK._params
  wLog,         \* worker: every message handled so far with what the handler did
  oShape,       \* ocean: _shape
  oCenter,      \* ocean: _center
  oRadius,      \* ocean: _radius
  oMinCellSize, \* ocean: _minCellSize
  oCamera,      \* ocean: _params.camera.position
  oChunks,      \* ocean: _chunks, key -> entry
  oGroups,      \* ocean: the children of each of the six _groups
  oScene,       \* ocean: the groups that are children of the scene
  oMeshPosition,\* ocean: mesh.position of the mesh of each entry of _chunks
  oTotalTime,   \* ocean: _totalTime, which is also the material's time uniform
  oAllocated,   \* ocean: geometries and cloned materials allocated so far
  oDisposed,    \* ocean: geometries disposed so far
  oCleared,     \* ocean: _ClearAllChunks ran since the last Update
  oLast,        \* ocean: what the last Update did
  tShape,       \* terrain manager: shape
  tCenter,      \* terrain manager: ring centre
  tAsync,       \* terrain manager: a worker pool is available
  tCamera,      \* terrain manager: camera position
  tChunks,      \* terrain manager: chunk map, key -> entry
  tGroups,      \* terrain manager: the children of each face group
  tDesired,     \* terrain manager: leaf keys of the latest Update
  tQueue,       \* terrain manager: build requests waiting for a worker
  tInFlight,    \* terrain manager: build requests a worker is building
  tMeshPosition,\* terrain manager: the render position of the mesh of each entry
  tDisposed,    \* terrain manager: geometries disposed so far
  tReady,       \* terrain manager: the initial visible set has been built
  tUpdates,     \* terrain manager: Updates so far
  tLast,        \* terrain manager: what the last build completion did
  mShapeParams, \* height mask: the shapeParams both computations are given
  mLatitude,    \* height mask: the latitude of the point
  mBuilderMask, \* height mask: heightMask computed by Rebuild
  mSceneryMask, \* height mask: heightMask computed by _GetTerrainHeight
  mDone,        \* height mask: which of the two have been computed
  qRadius,      \* quadtree: radius of the CubeQuadTree
  qMinNodeSize, \* quadtree: min_node_size
  qCamera,      \* quadtree: the position handed to Insert
  qChildren,    \* quadtree: GetChildren() after Insert
  qInserted,    \* quadtree: Insert has been called
  dUrl,         \* demo: the query string of the URL, as its name/value pairs
  dSceneType,   \* demo: _currentSceneType
  dRingworld,   \* demo: the ring terrain manager was created
  dTerrain,     \* demo: _terrainManager is set
  dReady,       \* demo: what the planet terrain manager's IsReady() returns
  dTrack,       \* demo: the camera track (_paused, _currentTime), once created
  dEntity,      \* demo: the camera track is in _entities
  dStarted,     \* demo: _cameraTrackStarted
  dComplete,    \* demo: _cameraTrackComplete
  dTrackTime,   \* demo: _cameraTrackTime
  dCamera,      \* demo: where the camera is
  dLast,        \* demo: what the steps so far did
  fTouch,       \* controls: _isTouchDevice
  fLock,        \* controls: document.pointerLockElement
  fEnabled,     \* controls: _enabled
  fKeys,        \* controls: the keys held down
  fMove,        \* controls: _move
  fVelocity,    \* controls: _velocity
  fAccelX,      \* controls: guiParams.camera.acceleration_x
  fAcceleration,\* controls: _acceleration
  fPosition,    \* controls: camera.position
  fQuaternion,  \* controls: camera.quaternion
  fGamepad,     \* controls: the first connected gamepad
  fTriggerDelay,\* controls: _gamepadTriggerStepDelay
  fEvents,      \* controls: events handled so far
  fLast,        \* controls: the last event and the state it was handled in
  sEnabled,     \* scenery: _enabled
  sCamera,      \* scenery: camera.position
  sChunks,      \* scenery: terrainManager.GetChunks(), key -> chunk
  sByWorldPos,  \* scenery: _sceneryByWorldPos, grid key -> scenery object
  sTypeByWorldPos, \* scenery: _sceneryTypeByWorldPos, grid key -> type
  sProcessed,   \* scenery: _processedChunks
  sProgress,    \* scenery: _chunkSpawnProgress, key -> attempts
  sObjectsByNode, \* scenery: the keys of _objectsByNode
  sScene,       \* scenery: the grid keys of the scenery objects in the scene
  sChanges,     \* scenery: changes of camera, chunk set and enabling so far
  sTrace,       \* scenery: per chunk key, the candidates made since its progress began
  sLast         \* scenery: what the last Update did

buildVars == <<bParams, bPc, bTrace, bOut>>
workerVars == <<chunkParams, wLog>>
oceanVars ==
  <<oShape, oCenter, oRadius, oMinCellSize, oCamera, oChunks, oGroups, oScene,
    oMeshPosition, oTotalTime, oAllocated, oDisposed, oCleared, oLast>>
terrainVars ==
  <<tShape, tCenter, tAsync, tCamera, tChunks, tGroups, tDesired, tQueue, tInFlight,
    tMeshPosition, tDisposed, tReady, tUpdates, tLast>>
maskVars == <<mShapeParams, mLatitude, mBuilderMask, mSceneryMask, mDone>>
quadVars == <<qRadius, qMinNodeSize, qCamera, qChildren, qInserted>>
demoVars ==
  <<dUrl, dSceneType, dRingworld, dTerrain, dReady, dTrack, dEntity, dStarted, dComplete, dTrackTime,
    dCamera, dLast>>
fpsVars ==
  <<fTouch, fLock, fEnabled, fKeys, fMove, fVelocity, fAccelX, fAcceleration, fPosition,
    fQuaternion, fGamepad, fTriggerDelay, fEvents, fLast>>
sceneryVars ==
  <<sEnabled, sCamera, sChunks, sByWorldPos, sTypeByWorldPos, sProcessed, sProgress,
    sObjectsByNode, sScene, sChanges, sTrace, sLast>>
inputVars == <<fpsVars, sceneryVars>>
restVars == <<maskVars, quadVars, demoVars, inputVars>>
vars == <<buildVars, workerVars, oceanVars, terrainVars, restVars>>

EmptyResult ==
  [positions |-> << >>, colours |-> << >>, uvs |-> << >>, normals |-> << >>,
   coords |-> << >>, weights1 |-> << >>, weights2 |-> << >>]

NoGroups == [i \in 0..5 |-> {}]
NoUpdate ==
  [updates |-> 0, camera |-> <<0, 0, 0>>, radius |-> 0, minCellSize |-> 0,
   cleared |-> FALSE, prevCamera |-> <<0, 0, 0>>, prevRadius |-> 0, prevMinCellSize |-> 0,
   prevKeys |-> {}, keys |-> {}, before |-> << >>, created |-> {}, recycled |-> {},
   disposed |-> {}]
NoCompletion ==
  [completions |-> 0, key |-> << >>, desired |-> {}, before |-> << >>, after |-> << >>,
   groupsBefore |-> NoGroups, groupsAfter |-> NoGroups]

BuildIdle ==
  /\ bParams = NoParams /\ bPc = "idle" /\ bTrace = << >> /\ bOut = EmptyResult
WorkerIdle == chunkParams = NoParams /\ wLog = << >>
OceanIdle ==
  /\ oShape = "planet" /\ oCenter = <<0, 0, 0>> /\ oRadius = 0 /\ oMinCellSize = 0
  /\ oCamera = <<0, 0, 0>> /\ oChunks = << >> /\ oGroups = NoGroups /\ oScene = {}
  /\ oMeshPosition = << >> /\ oTotalTime = 0 /\ oAllocated = {} /\ oDisposed = {}
  /\ oCleared = FALSE /\ oLast = NoUpdate
TerrainIdle ==
  /\ tShape = "planet" /\ tCenter = <<0, 0, 0>> /\ tAsync = FALSE /\ tCamera = <<0, 0, 0>>
  /\ tChunks = << >> /\ tGroups = NoGroups /\ tDesired = {} /\ tQueue = << >>
  /\ tInFlight = {} /\ tMeshPosition = << >>
  /\ tDisposed = {} /\ tReady = FALSE /\ tUpdates = 0 /\ tLast = NoCompletion
NoTrack == [exists |-> FALSE, paused |-> FALSE, currentTime |-> 0]
NoSteps ==
  [steps |-> 0, isReadyTrue |-> 0, unpaused |-> 0, unpausedInStep |-> 0, paused |-> 0,
   firstReadyStep |-> 0, movedBeforeReady |-> FALSE, moved |-> 0]
MaskIdle ==
  /\ mShapeParams = << >> /\ mLatitude = 0 /\ mBuilderMask = 0 /\ mSceneryMask = 0
  /\ mDone = {}
QuadIdle ==
  /\ qRadius = 0 /\ qMinNodeSize = 0 /\ qCamera = <<0, 0, 0>> /\ qChildren = << >>
  /\ qInserted = FALSE
DemoIdle ==
  /\ dUrl = << >> /\ dSceneType = "both" /\ dRingworld = FALSE /\ dTerrain = FALSE /\ dReady = FALSE /\ dTrack = NoTrack
  /\ dEntity = FALSE /\ dStarted = FALSE /\ dComplete = FALSE /\ dTrackTime = 0
  /\ dCamera = "orbit" /\ dLast = NoSteps
NoEvent ==
  [event |-> "none", enabled |-> FALSE, keys |-> {}, position |-> <<0, 0, 0>>,
   quaternion |-> IdentityQuaternion, velocity |-> <<0, 0, 0>>,
   acceleration |-> <<InitialAcceleration, InitialAcceleration, InitialAcceleration>>,
   accelX |-> InitialAcceleration, change |-> 0, timeInSeconds |-> 0]
FpsIdle ==
  /\ fTouch = FALSE /\ fLock = "none" /\ fEnabled = FALSE /\ fKeys = {} /\ fMove = NoMove
  /\ fVelocity = <<0, 0, 0>> /\ fAccelX = InitialAcceleration
  /\ fAcceleration = <<InitialAcceleration, InitialAcceleration, InitialAcceleration>>
  /\ fPosition = <<0, 0, 0>> /\ fQuaternion = IdentityQuaternion /\ fGamepad = NoGamepad
  /\ fTriggerDelay = 0 /\ fEvents = 0 /\ fLast = NoEvent
NoSceneryUpdate ==
  [called |-> FALSE, ran |-> FALSE, camera |-> <<0, 0, 0>>, chunks |-> << >>,
   before |-> << >>, created |-> << >>]
SceneryIdle ==
  /\ sEnabled = FALSE /\ sCamera = <<0, 0, 0>> /\ sChunks = << >> /\ sByWorldPos = << >>
  /\ sTypeByWorldPos = << >> /\ sProcessed = {} /\ sProgress = << >>
  /\ sObjectsByNode = {} /\ sScene = {} /\ sChanges = 0 /\ sTrace = << >>
  /\ sLast = NoSceneryUpdate
InputIdle == FpsIdle /\ SceneryIdle
RestIdle == MaskIdle /\ QuadIdle /\ DemoIdle /\ InputIdle

(***************************************************************************)
(* Specification of one chunk build: Init(params) then Rebuild()           *)
(***************************************************************************)
BuildInit ==
  /\ \E raw \in BuildInputs : bParams = Init(NoParams, raw).params
  /\ bPc = "init"
  /\ bTrace = << >>
  /\ bOut = EmptyResult
  /\ WorkerIdle /\ OceanIdle /\ TerrainIdle /\ RestIdle

DoRebuild ==
  /\ bPc = "init"
  /\ bPc' = "done"
  /\ bTrace' = RebuildTrace(bParams)
  /\ bOut' = RebuildResult(bParams, bTrace')
  /\ UNCHANGED <<bParams, workerVars, oceanVars, terrainVars, restVars>>

BuildNext == DoRebuild

BuildSpec == BuildInit /\ [][BuildNext]_vars

(***************************************************************************)
(* Specification of the worker: self.onmessage on the one _CHUNK instance  *)
(***************************************************************************)
WorkerInit == BuildIdle /\ WorkerIdle /\ OceanIdle /\ TerrainIdle /\ RestIdle

LogEntry(msg, before, after, outcome, posts) ==
  [msg |-> msg, before |-> before, after |-> after, outcome |-> outcome, posts |-> posts]

\* subject "build_chunk", Init and Rebuild return: one result is posted.
BuildChunk(msg) ==
  /\ Len(wLog) < MaxMessages
  /\ msg.subject = "build_chunk"
  /\ ~Init(chunkParams, msg.params).threw
  /\ chunkParams' = Init(chunkParams, msg.params).params
  /\ wLog' = Append(wLog, LogEntry(msg, chunkParams, chunkParams', "posted",
                                   <<ResultMessage(Rebuild(chunkParams'))>>))
  /\ UNCHANGED <<buildVars, oceanVars, terrainVars, restVars>>

\* subject "build_chunk", Init throws: the exception leaves the handler,
\* nothing is posted, _params stays as far as Init got.
BuildChunkThrows(msg) ==
  /\ Len(wLog) < MaxMessages
  /\ msg.subject = "build_chunk"
  /\ Init(chunkParams, msg.params).threw
  /\ chunkParams' = Init(chunkParams, msg.params).params
  /\ wLog' = Append(wLog, LogEntry(msg, chunkParams, chunkParams', "threw", << >>))
  /\ UNCHANGED <<buildVars, oceanVars, terrainVars, restVars>>

\* Any other subject: the handler does nothing.
OtherSubject(msg) ==
  /\ Len(wLog) < MaxMessages
  /\ msg.subject # "build_chunk"
  /\ wLog' = Append(wLog, LogEntry(msg, chunkParams, chunkParams, "ignored", << >>))
  /\ UNCHANGED <<chunkParams, buildVars, oceanVars, terrainVars, restVars>>

\* self.onmessage (lines 420-442).
WorkerNext ==
  \E msg \in WorkerMessages :
    \/ BuildChunk(msg)
    \/ BuildChunkThrows(msg)
    \/ OtherSubject(msg)

WorkerSpec == WorkerInit /\ [][WorkerNext]_vars

(***************************************************************************)
(* Specification of the ocean chunk manager                                *)
(***************************************************************************)
\* constructor, _Init and _InitOcean (lines 10-39, 192-198).
OceanInit ==
  /\ \E params \in OceanParamsSet :
       /\ oShape = OceanInitShape(params)
       /\ oCenter = OceanInitCenter(params)
       /\ oRadius = OceanInitRadius(params)
  /\ oMinCellSize = OceanMinCellSize(QT_MIN_CELL_SIZE)
  /\ oCamera \in OceanCameraPositions
  /\ oChunks = << >>
  /\ oGroups = NoGroups
  /\ oScene = 0..5
  /\ oMeshPosition = << >>
  /\ oTotalTime = 0
  /\ oAllocated = {}
  /\ oDisposed = {}
  /\ oCleared = FALSE
  /\ oLast = NoUpdate
  /\ BuildIdle /\ WorkerIdle /\ TerrainIdle /\ RestIdle

\* The camera moves between frames.
MoveCamera(position) ==
  /\ oCamera' = position
  /\ UNCHANGED <<oShape, oCenter, oRadius, oMinCellSize, oChunks, oGroups, oScene,
                 oMeshPosition, oTotalTime, oAllocated, oDisposed, oCleared, oLast>>
  /\ UNCHANGED <<buildVars, workerVars, terrainVars, restVars>>

\* _UpdateVisibleChunks_Quadtree (lines 464-554) and the repositioning of
\* Update (lines 452-461), given the keyed leaves, the recycled chunks and
\* the entries created.
UpdateVisibleChunks(newOceanChunks, recycle, created) ==
  /\ oChunks' = DictIntersection(oChunks, newOceanChunks) @@ created
  /\ oGroups' = GroupsWith(GroupsWithout(oGroups, recycle), Values(created))
  /\ oDisposed' = oDisposed \cup DisposedWith(recycle)
  /\ oAllocated' = oAllocated \cup AllocatedWith(created)
  /\ oMeshPosition' = MeshPositions(oChunks', oCamera)
  /\ oLast' = [updates |-> oTotalTime + 1, camera |-> oCamera, radius |-> oRadius,
               minCellSize |-> oMinCellSize, cleared |-> oCleared,
               prevCamera |-> oLast.camera, prevRadius |-> oLast.radius,
               prevMinCellSize |-> oLast.minCellSize, prevKeys |-> oLast.keys,
               keys |-> DOMAIN newOceanChunks, before |-> oChunks,
               created |-> DOMAIN created, recycled |-> recycle,
               disposed |-> DisposedWith(recycle)]

UpdateWith(newOceanChunks) ==
  UpdateVisibleChunks(newOceanChunks, Recycle(oChunks, newOceanChunks),
                      CreatedEntries(DictDifference(newOceanChunks, oChunks), oTotalTime + 1,
                                     oShape, oRadius, oCenter))

\* Update(timeInSeconds) (lines 445-462), one second per frame.
OceanUpdate ==
  /\ oTotalTime < MaxUpdates
  /\ oTotalTime' = oTotalTime + 1
  /\ UpdateWith(NewOceanChunks(oRadius, oMinCellSize,
                               OceanQueryPosition(oShape, oCamera, oCenter)))
  /\ oCleared' = FALSE
  /\ UNCHANGED <<oShape, oCenter, oRadius, oMinCellSize, oCamera, oScene>>
  /\ UNCHANGED <<buildVars, workerVars, terrainVars, restVars>>

\* The radius control's onChange (lines 117-122) with _ClearAllChunks
\* (lines 200-213).
SetRadius(value) ==
  /\ oRadius' = value
  /\ oGroups' = GroupsWithout(oGroups, { c \in Values(oChunks) : Has(c, "group") })
  /\ oDisposed' = oDisposed
       \cup DisposedWith({ c \in Values(oChunks) : Has(c, "group") /\ Has(c, "geometry") })
  /\ oChunks' = << >>
  /\ oMeshPosition' = << >>
  /\ oCleared' = TRUE
  /\ UNCHANGED <<oShape, oCenter, oMinCellSize, oCamera, oScene, oTotalTime, oAllocated, oLast>>
  /\ UNCHANGED <<buildVars, workerVars, terrainVars, restVars>>

\* The QT_MIN_CELL_SIZE control's onChange.
SetMinCellSize(value) ==
  /\ oMinCellSize' = OceanMinCellSize(value)
  /\ UNCHANGED <<oShape, oCenter, oRadius, oCamera, oChunks, oGroups, oScene, oMeshPosition,
                 oTotalTime, oAllocated, oDisposed, oCleared, oLast>>
  /\ UNCHANGED <<buildVars, workerVars, terrainVars, restVars>>

\* scene.add(...groups) / scene.remove(...groups): the children of the scene.
SceneAfterSetEnabled(scene, groups, enabled) ==
  IF enabled THEN scene \cup DOMAIN groups ELSE scene \ DOMAIN groups

\* Variant of SetEnabled that also clears the chunks when it disables.
SetEnabledClearing(enabled) ==
  /\ oScene' = SceneAfterSetEnabled(oScene, oGroups, enabled)
  /\ oChunks' = IF enabled THEN oChunks ELSE << >>
  /\ oMeshPosition' = IF enabled THEN oMeshPosition ELSE << >>
  /\ UNCHANGED <<oShape, oCenter, oRadius, oMinCellSize, oCamera, oGroups,
                 oTotalTime, oAllocated, oDisposed, oCleared, oLast>>
  /\ UNCHANGED <<buildVars, workerVars, terrainVars, restVars>>

\* SetEnabled(enabled) (lines 562-570): scene.add / scene.remove of the groups.
SetEnabled(enabled) ==
  /\ oScene' = SceneAfterSetEnabled(oScene, oGroups, enabled)
  /\ UNCHANGED <<oShape, oCenter, oRadius, oMinCellSize, oCamera, oChunks, oGroups,
                 oMeshPosition, oTotalTime, oAllocated, oDisposed, oCleared, oLast>>
  /\ UNCHANGED <<buildVars, workerVars, terrainVars, restVars>>

OceanNext ==
  \/ \E position \in OceanCameraPositions : MoveCamera(position)
  \/ OceanUpdate
  \/ \E value \in OceanRadiusValues : SetRadius(value)
  \/ \E value \in MinCellSizeValues : SetMinCellSize(value)
  \/ \E enabled \in BOOLEAN : SetEnabled(enabled)

OceanSpec == OceanInit /\ [][OceanNext]_vars

(***************************************************************************)
(* Specification of the terrain chunk manager                              *)
(***************************************************************************)
TerrainInit ==
  /\ \E params \in TerrainParamsSet :
       tShape = params.shape /\ tCenter = params.center /\ tAsync = params.async
  /\ tCamera \in TerrainCameraPositions
  /\ tChunks = << >>
  /\ tGroups = NoGroups
  /\ tDesired = {}
  /\ tQueue = << >>
  /\ tInFlight = {}
  /\ tMeshPosition = << >>
  /\ tDisposed = {}
  /\ tReady = FALSE
  /\ tUpdates = 0
  /\ tLast = NoCompletion
  /\ BuildIdle /\ WorkerIdle /\ OceanIdle /\ RestIdle

PendingKeys == { tQueue[n].key : n \in DOMAIN tQueue } \cup { r.key : r \in tInFlight }

TerrainMoveCamera(position) ==
  /\ tCamera' = position
  /\ UNCHANGED <<tShape, tCenter, tAsync, tChunks, tGroups, tDesired, tQueue, tInFlight,
                 tMeshPosition, tDisposed, tReady, tUpdates, tLast>>
  /\ UNCHANGED <<buildVars, workerVars, oceanVars, restVars>>

\* Steps 2 to 6 of Update with a worker pool: recycle, submit the new keys,
\* reposition.
UpdateAsync(leaves, recycle, requests) ==
  /\ tChunks' = DictIntersection(tChunks, leaves)
  /\ tGroups' = GroupsWithout(tGroups, recycle)
  /\ tDisposed' = tDisposed \cup DisposedWith(recycle)
  /\ tInFlight' = InFlightAfter(tQueue \o requests, tInFlight)
  /\ tQueue' = QueueAfter(tQueue \o requests, tInFlight)
  /\ tReady' = (tReady \/ (tQueue \o requests = << >> /\ tInFlight = {}))

\* Steps 2 to 6 of Update without a worker pool: the new chunks are built
\* inline.
UpdateInline(leaves, recycle, created) ==
  /\ tChunks' = DictIntersection(tChunks, leaves) @@ created
  /\ tGroups' = GroupsWith(GroupsWithout(tGroups, recycle), Values(created))
  /\ tDisposed' = tDisposed \cup DisposedWith(recycle)
  /\ tReady' = TRUE
  /\ UNCHANGED <<tQueue, tInFlight>>

UpdateFrom(leaves, requests) ==
  /\ tDesired' = DOMAIN leaves
  /\ IF tAsync
     THEN UpdateAsync(leaves, Recycle(tChunks, leaves), requests)
     ELSE UpdateInline(leaves, Recycle(tChunks, leaves), BuiltChunks(requests, tShape, tCenter))
  /\ tMeshPosition' = MeshPositions(tChunks', tCamera)

UpdateWithLeaves(leaves) ==
  UpdateFrom(leaves,
             Requests(leaves, KeysInOrder(DOMAIN leaves \ (DOMAIN tChunks \cup PendingKeys)),
                      tUpdates + 1))

\* Update(dt).
TerrainUpdate ==
  /\ tUpdates < MaxTerrainUpdates
  /\ tUpdates' = tUpdates + 1
  /\ UpdateWithLeaves(TerrainLeaves(tShape, tCamera, tCenter))
  /\ UNCHANGED <<tShape, tCenter, tAsync, tCamera, tLast>>
  /\ UNCHANGED <<buildVars, workerVars, oceanVars, restVars>>

\* The result of request r arrives: its chunk is materialized or the result
\* is discarded, and the freed worker takes the next request.
Completion(r, created) ==
  /\ tChunks' = tChunks @@ created
  /\ tGroups' = GroupsWith(tGroups, Values(created))
  /\ tInFlight' = InFlightAfter(tQueue, tInFlight \ {r})
  /\ tQueue' = QueueAfter(tQueue, tInFlight \ {r})
  /\ tReady' = (tReady \/ (tQueue = << >> /\ tInFlight = {r}))
  /\ tMeshPosition' = MeshPositions(tChunks', tCamera)
  /\ tLast' = [completions |-> tLast.completions + 1, key |-> r.key, desired |-> tDesired,
               before |-> tChunks, after |-> tChunks', groupsBefore |-> tGroups,
               groupsAfter |-> tGroups']

BuildCompletes(r) ==
  /\ r \in tInFlight
  /\ tLast.completions < MaxCompletions
  /\ Completion(r, IF MaterializesResult(r.key, tDesired)
                   THEN BuiltChunks(<<r>>, tShape, tCenter) ELSE << >>)
  /\ UNCHANGED <<tShape, tCenter, tAsync, tCamera, tDesired, tDisposed, tUpdates>>
  /\ UNCHANGED <<buildVars, workerVars, oceanVars, restVars>>

TerrainNext ==
  \/ \E position \in TerrainCameraPositions : TerrainMoveCamera(position)
  \/ TerrainUpdate
  \/ \E r \in tInFlight : BuildCompletes(r)

TerrainSpec == TerrainInit /\ [][TerrainNext]_vars

(***************************************************************************)
(* Specification of the two height-mask computations on one point          *)
(***************************************************************************)
MaskInit ==
  /\ mShapeParams \in MaskShapeParamsSet
  /\ mLatitude \in MaskLatitudes
  /\ mBuilderMask = 0 /\ mSceneryMask = 0 /\ mDone = {}
  /\ BuildIdle /\ WorkerIdle /\ OceanIdle /\ TerrainIdle /\ QuadIdle /\ DemoIdle /\ InputIdle

\* Rebuild computes heightMask for a vertex at mLatitude (lines 85-136).
BuilderMask ==
  /\ "builder" \notin mDone
  /\ mBuilderMask' = HeightMaskAt(RingParams(mShapeParams), mLatitude)
  /\ mDone' = mDone \cup {"builder"}
  /\ UNCHANGED <<mShapeParams, mLatitude, mSceneryMask>>
  /\ UNCHANGED <<buildVars, workerVars, oceanVars, terrainVars, quadVars, demoVars, inputVars>>

\* _GetTerrainHeight computes heightMask for a point at mLatitude.
SceneryMask ==
  /\ "scenery" \notin mDone
  /\ mSceneryMask' = SceneryHeightMask(mShapeParams, mLatitude)
  /\ mDone' = mDone \cup {"scenery"}
  /\ UNCHANGED <<mShapeParams, mLatitude, mBuilderMask>>
  /\ UNCHANGED <<buildVars, workerVars, oceanVars, terrainVars, quadVars, demoVars, inputVars>>

MaskNext == BuilderMask \/ SceneryMask

MaskSpec == MaskInit /\ [][MaskNext]_vars

(***************************************************************************)
(* Specification of one quadtree query: new CubeQuadTree, Insert,          *)
(* GetChildren, as _UpdateVisibleChunks_Quadtree makes it                  *)
(***************************************************************************)
QuadInit ==
  /\ qRadius \in QuadRadii
  /\ qMinNodeSize \in QuadMinNodeSizes
  /\ qCamera \in QuadCameraPositions
  /\ qChildren = << >> /\ qInserted = FALSE
  /\ BuildIdle /\ WorkerIdle /\ OceanIdle /\ TerrainIdle /\ MaskIdle /\ DemoIdle /\ InputIdle

\* q.Insert(cameraPosition): the six face trees are subdivided.
QuadInsert ==
  /\ ~qInserted
  /\ qInserted' = TRUE
  /\ UNCHANGED <<qRadius, qMinNodeSize, qCamera, qChildren>>
  /\ UNCHANGED <<buildVars, workerVars, oceanVars, terrainVars, maskVars, demoVars, inputVars>>

\* q.GetChildren(): the leaves of the six face trees.
QuadGetChildren ==
  /\ qInserted /\ qChildren = << >>
  /\ qChildren' = CubeQuadTreeChildren(qRadius, qMinNodeSize, qCamera)
  /\ UNCHANGED <<qRadius, qMinNodeSize, qCamera, qInserted>>
  /\ UNCHANGED <<buildVars, workerVars, oceanVars, terrainVars, maskVars, demoVars, inputVars>>

QuadNext == QuadInsert \/ QuadGetChildren

QuadSpec == QuadInit /\ [][QuadNext]_vars

(***************************************************************************)
(* Specification of the demo's frames: _OnInitialize, then _OnStep and     *)
(* the camera track entity's Update in every frame                         *)
(***************************************************************************)
\* _OnInitialize for the scene type of the URL.
DemoInitialized(sceneType) ==
  /\ dSceneType = sceneType
  /\ dTerrain = InitializeScene(sceneType).terrain
  /\ dRingworld = InitializeScene(sceneType).ringworld
  /\ dReady = FALSE
  /\ dTrack = IF sceneType # "ring" THEN CameraTrack([paused |-> TRUE]) ELSE NoTrack
  /\ dEntity = (sceneType # "ring")
  /\ dStarted = FALSE
  /\ dComplete = (sceneType = "ring")
  /\ dTrackTime = 0
  /\ dCamera = "orbit"
  /\ dLast = NoSteps

DemoInit ==
  /\ \E search \in UrlSearches :
       dUrl = search /\ DemoInitialized(GetSceneTypeFromURL(search))
  /\ BuildIdle /\ WorkerIdle /\ OceanIdle /\ TerrainIdle /\ MaskIdle /\ QuadIdle /\ InputIdle

\* The planet terrain manager finishes its initial visible set.
TerrainBecomesReady ==
  /\ dTerrain /\ ~dReady
  /\ dReady' = TRUE
  /\ UNCHANGED <<dUrl, dSceneType, dRingworld, dTerrain, dTrack, dEntity, dStarted, dComplete, dTrackTime,
                 dCamera, dLast>>
  /\ UNCHANGED <<buildVars, workerVars, oceanVars, terrainVars, maskVars, quadVars, inputVars>>

\* The step counted, with whether the terrain was ready when it began.
StepCounted ==
  [dLast EXCEPT !.steps = @ + 1,
                !.firstReadyStep = IF @ = 0 /\ dTerrain /\ dReady THEN dLast.steps + 1 ELSE @]

\* _OnStep while the track has not started and IsReady() is false (or there
\* is no terrain manager): return.
OnStepWaits ==
  /\ dStarted' = dStarted /\ dTrack' = dTrack /\ dTrackTime' = dTrackTime
  /\ dComplete' = dComplete /\ dEntity' = dEntity /\ dCamera' = dCamera
  /\ dLast' = StepCounted

\* _OnStep once the track has started (lines 374-390), where `unpausing`
\* says that this step started it: the time advances from trackTime, and at
\* the duration the track is removed and the camera put on the target.
OnStepAdvances(trackTime, timeInSeconds, unpausing) ==
  /\ dStarted' = TRUE
  /\ dTrackTime' = trackTime + timeInSeconds
  /\ dComplete' = (trackTime + timeInSeconds >= GetCameraTrackDuration(dSceneType))
  /\ dEntity' = (dEntity /\ ~dComplete')
  /\ dCamera' = IF dComplete' THEN "target" ELSE dCamera
  /\ dTrack' = [dTrack EXCEPT !.exists = ~dComplete',
                              !.paused = IF unpausing THEN FALSE ELSE @]
  /\ dLast' = [StepCounted EXCEPT
                 !.isReadyTrue = IF unpausing THEN @ + 1 ELSE @,
                 !.unpaused = IF unpausing THEN @ + 1 ELSE @,
                 !.unpausedInStep = IF unpausing THEN dLast.steps + 1 ELSE @]

\* _OnStep(timeInSeconds).
OnStep(timeInSeconds) ==
  /\ dLast.steps < MaxSteps
  /\ IF ~dComplete /\ dTrack.exists /\ dSceneType # "ring"
       THEN IF ~dStarted
              THEN IF dTerrain /\ dReady
                     THEN OnStepAdvances(0, timeInSeconds, TRUE)
                     ELSE OnStepWaits
              ELSE OnStepAdvances(dTrackTime, timeInSeconds, FALSE)
       ELSE OnStepWaits
  /\ UNCHANGED <<dUrl, dSceneType, dRingworld, dTerrain, dReady>>
  /\ UNCHANGED <<buildVars, workerVars, oceanVars, terrainVars, maskVars, quadVars, inputVars>>

\* The game loop updates the camera track entity: _CameraTrack.Update.
TrackUpdate(timeInSeconds) ==
  /\ dEntity
  /\ dLast.moved < MaxSteps
  /\ IF CameraTrackUpdates(dTrack)
       THEN /\ dTrack' = [dTrack EXCEPT !.currentTime = @ + timeInSeconds]
            /\ dCamera' = CameraTrackPosition(dTrack.currentTime + timeInSeconds,
                                              GetCameraTrackDuration(dSceneType))
            /\ dLast' = [dLast EXCEPT !.moved = @ + 1,
                                      !.movedBeforeReady = @ \/ dLast.isReadyTrue = 0]
       ELSE UNCHANGED <<dTrack, dCamera, dLast>>
  /\ UNCHANGED <<dUrl, dSceneType, dRingworld, dTerrain, dReady, dEntity, dStarted, dComplete, dTrackTime>>
  /\ UNCHANGED <<buildVars, workerVars, oceanVars, terrainVars, maskVars, quadVars, inputVars>>

DemoNext ==
  \/ TerrainBecomesReady
  \/ \E timeInSeconds \in FrameTimes : OnStep(timeInSeconds)
  \/ \E timeInSeconds \in FrameTimes : TrackUpdate(timeInSeconds)

DemoSpec == DemoInit /\ [][DemoNext]_vars

(***************************************************************************)
(* Specification of the first-person controller: its event handlers and    *)
(* Update                                                                  *)
(***************************************************************************)
\* _Init (lines 78-183) and _InitGUI (lines 185-205): on a touch device
\* _SetupTouchControls enables the controller at once.
FpsInit ==
  /\ fTouch \in BOOLEAN
  /\ fEnabled = fTouch
  /\ fLock = "none"
  /\ fKeys = {}
  /\ fMove = NoMove
  /\ fVelocity = <<0, 0, 0>>
  /\ fAccelX = InitialAcceleration
  /\ fAcceleration = <<InitialAcceleration, InitialAcceleration, InitialAcceleration>>
  /\ fPosition = <<0, 0, 0>>
  /\ fQuaternion = IdentityQuaternion
  /\ fGamepad = NoGamepad
  /\ fTriggerDelay = 0
  /\ fEvents = 0
  /\ fLast = NoEvent
  /\ BuildIdle /\ WorkerIdle /\ OceanIdle /\ TerrainIdle /\ MaskIdle /\ QuadIdle /\ DemoIdle
  /\ SceneryIdle

FpsOthersUnchanged ==
  UNCHANGED <<buildVars, workerVars, oceanVars, terrainVars, maskVars, quadVars, demoVars,
              sceneryVars>>

\* The state an event is handled in.
Event(event, change, timeInSeconds) ==
  [event |-> event, enabled |-> fEnabled, keys |-> fKeys, position |-> fPosition,
   quaternion |-> fQuaternion, velocity |-> fVelocity, acceleration |-> fAcceleration,
   accelX |-> fAccelX, change |-> change, timeInSeconds |-> timeInSeconds]

\* guiParams.camera.acceleration_x and _acceleration after an adjustment by
\* `change`: both are written only when the clamped value differs.
Adjusted(change) ==
  /\ fAccelX' = ClampAcceleration(fAccelX, change)
  /\ fAcceleration' =
       IF ClampAcceleration(fAccelX, change) = fAccelX THEN fAcceleration
       ELSE <<ClampAcceleration(fAccelX, change), ClampAcceleration(fAccelX, change),
              ClampAcceleration(fAccelX, change)>>

\* pointerlockchange with document.pointerLockElement = element.
LockChange(element) ==
  /\ element # fLock
  /\ fLock' = element
  /\ fEnabled' = LockChangeEnabled(fEnabled, fTouch, element)
  /\ fLast' = Event("lockchange", 0, 0)
  /\ UNCHANGED <<fTouch, fKeys, fMove, fVelocity, fAccelX, fAcceleration, fPosition,
                 fQuaternion, fGamepad, fTriggerDelay>>
  /\ FpsOthersUnchanged

\* keydown.
KeyDown(keyCode) ==
  /\ keyCode \notin fKeys
  /\ fKeys' = fKeys \cup {keyCode}
  /\ fMove' = _onKeyDown(fMove, keyCode)
  /\ fLast' = Event("keydown", 0, 0)
  /\ UNCHANGED <<fTouch, fLock, fEnabled, fVelocity, fAccelX, fAcceleration, fPosition,
                 fQuaternion, fGamepad, fTriggerDelay>>
  /\ FpsOthersUnchanged

\* keyup.
KeyUp(keyCode) ==
  /\ keyCode \in fKeys
  /\ fKeys' = fKeys \ {keyCode}
  /\ fMove' = _onKeyUp(fMove, keyCode)
  /\ fLast' = Event("keyup", 0, 0)
  /\ UNCHANGED <<fTouch, fLock, fEnabled, fVelocity, fAccelX, fAcceleration, fPosition,
                 fQuaternion, fGamepad, fTriggerDelay>>
  /\ FpsOthersUnchanged

\* _OnMouseMove.
MouseMove(movement) ==
  /\ fQuaternion' =
       IF ~fEnabled THEN fQuaternion
       ELSE Pitch(Yaw(fQuaternion, movement[1]), movement[2])
  /\ fLast' = Event("mousemove", 0, 0)
  /\ UNCHANGED <<fTouch, fLock, fEnabled, fKeys, fMove, fVelocity, fAccelX, fAcceleration,
                 fPosition, fGamepad, fTriggerDelay>>
  /\ FpsOthersUnchanged

\* _OnMouseWheel: a step up for a negative deltaY, down for a positive one.
MouseWheel(deltaY) ==
  /\ IF ~fEnabled \/ Sign(deltaY) = 0
       THEN UNCHANGED <<fAccelX, fAcceleration>>
       ELSE Adjusted(IF Sign(deltaY) < 0 THEN AccelerationStep ELSE -AccelerationStep)
  /\ fLast' = Event("wheel", IF Sign(deltaY) < 0 THEN AccelerationStep
                              ELSE IF Sign(deltaY) > 0 THEN -AccelerationStep ELSE 0, 0)
  /\ UNCHANGED <<fTouch, fLock, fEnabled, fKeys, fMove, fVelocity, fPosition, fQuaternion,
                 fGamepad, fTriggerDelay>>
  /\ FpsOthersUnchanged

\* touchstart on an acceleration button: _AdjustAcceleration(change).  The
\* buttons get their handlers in _SetupTouchControls, on touch devices only.
TouchAccelerationButton(change) ==
  /\ fTouch
  /\ Adjusted(change)
  /\ fLast' = Event("touch", change, 0)
  /\ UNCHANGED <<fTouch, fLock, fEnabled, fKeys, fMove, fVelocity, fPosition, fQuaternion,
                 fGamepad, fTriggerDelay>>
  /\ FpsOthersUnchanged

\* The gamepad is connected or disconnected, or its sticks, triggers and
\* d-pad change.
GamepadChange(gamepad) ==
  /\ gamepad # fGamepad
  /\ fGamepad' = gamepad
  /\ fLast' = Event("gamepad", 0, 0)
  /\ UNCHANGED <<fTouch, fLock, fEnabled, fKeys, fMove, fVelocity, fAccelX, fAcceleration,
                 fPosition, fQuaternion, fTriggerDelay>>
  /\ FpsOthersUnchanged

\* Update(timeInSeconds) while enabled, with the movement flags and the
\* acceleration that _UpdateGamepadInput leaves.
UpdateEnabled(move, acceleration, timeInSeconds) ==
  /\ fMove' = move
  /\ fVelocity' = VelocityAfter(fVelocity, move, acceleration, timeInSeconds)
  /\ fPosition' = PositionAfter(fPosition, fQuaternion,
                                VelocityAfter(fVelocity, move, acceleration, timeInSeconds),
                                timeInSeconds)

\* Update(timeInSeconds).
Update(timeInSeconds) ==
  /\ IF ~fEnabled
       THEN UNCHANGED <<fMove, fVelocity, fPosition, fAccelX, fAcceleration, fTriggerDelay>>
       ELSE /\ Adjusted(TriggerChange(fTriggerDelay, fGamepad, timeInSeconds))
            /\ fTriggerDelay' = TriggerDelayAfter(fTriggerDelay, fGamepad, timeInSeconds)
            /\ UpdateEnabled(GamepadMove(fMove, fGamepad),
                             IF ClampAcceleration(fAccelX, TriggerChange(fTriggerDelay, fGamepad, timeInSeconds)) = fAccelX
                               THEN fAcceleration
                               ELSE <<ClampAcceleration(fAccelX, TriggerChange(fTriggerDelay, fGamepad, timeInSeconds)),
                                      ClampAcceleration(fAccelX, TriggerChange(fTriggerDelay, fGamepad, timeInSeconds)),
                                      ClampAcceleration(fAccelX, TriggerChange(fTriggerDelay, fGamepad, timeInSeconds))>>,
                             timeInSeconds)
  /\ fLast' = Event("update", IF fEnabled THEN TriggerChange(fTriggerDelay, fGamepad, timeInSeconds) ELSE 0,
                    timeInSeconds)
  /\ UNCHANGED <<fTouch, fLock, fEnabled, fKeys, fQuaternion, fGamepad>>
  /\ FpsOthersUnchanged

\* One more event of a bounded run, and an event of an unbounded one.
Counted == fEvents < MaxFpsEvents /\ fEvents' = fEvents + 1
Uncounted == fEvents' = fEvents

FpsNext ==
  \/ \E element \in PointerLockElements : Counted /\ LockChange(element)
  \/ \E keyCode \in KeyCodes : Counted /\ KeyDown(keyCode)
  \/ \E keyCode \in KeyCodes : Counted /\ KeyUp(keyCode)
  \/ \E movement \in MouseMovements : Counted /\ MouseMove(movement)
  \/ \E deltaY \in WheelDeltas : Counted /\ MouseWheel(deltaY)
  \/ \E gamepad \in StickGamepads : Counted /\ GamepadChange(gamepad)
  \/ \E timeInSeconds \in FpsFrameTimes : Counted /\ Update(timeInSeconds)

FpsSpec == FpsInit /\ [][FpsNext]_vars

\* The acceleration controls alone: the wheel, the touch buttons and the
\* gamepad triggers polled by Update, with the camera at rest.
AccelNext ==
  \/ \E element \in PointerLockElements : Uncounted /\ LockChange(element)
  \/ \E deltaY \in WheelDeltas : Uncounted /\ MouseWheel(deltaY)
  \/ \E change \in {AccelerationStep, -AccelerationStep} : Uncounted /\ TouchAccelerationButton(change)
  \/ \E gamepad \in TriggerGamepads : Uncounted /\ GamepadChange(gamepad)
  \/ \E timeInSeconds \in FpsFrameTimes : Uncounted /\ Update(timeInSeconds)

AccelSpec == FpsInit /\ [][AccelNext]_vars

(***************************************************************************)
(* Specification of the scenery controller: Update, SetEnabled, and the    *)
(* camera and the terrain chunk set changing between Updates               *)
(***************************************************************************)
MaxSceneryChanges == 2
MaxLiveChanges == 1

\* The constructor (lines 1035-1107).
SceneryInit ==
  /\ sEnabled = TRUE
  /\ sCamera \in CameraPositions
  /\ sChunks \in ChunkSets
  /\ sByWorldPos = << >> /\ sTypeByWorldPos = << >>
  /\ sProcessed = {} /\ sProgress = << >> /\ sObjectsByNode = {} /\ sScene = {}
  /\ sChanges = 0 /\ sTrace = << >>
  /\ sLast = NoSceneryUpdate
  /\ BuildIdle /\ WorkerIdle /\ OceanIdle /\ TerrainIdle /\ MaskIdle /\ QuadIdle /\ DemoIdle
  /\ FpsIdle

SceneryOthersUnchanged ==
  UNCHANGED <<buildVars, workerVars, oceanVars, terrainVars, maskVars, quadVars, demoVars,
              fpsVars>>

CurrentCollections ==
  SceneryCollections(sByWorldPos, sTypeByWorldPos, sScene, sObjectsByNode, sProgress,
                     sProcessed, sTrace)

\* What the Update that returns now leaves in the record of the last Update.
UpdateRecord(c) ==
  [called |-> TRUE, ran |-> sEnabled, camera |-> sCamera, chunks |-> sChunks,
   before |-> CurrentCollections, created |-> c.created]

SceneryBecomes(c) ==
  /\ sByWorldPos' = c.byWorldPos
  /\ sTypeByWorldPos' = c.typeByWorldPos
  /\ sScene' = c.scene
  /\ sObjectsByNode' = c.objectsByNode
  /\ sProgress' = c.progress
  /\ sProcessed' = c.processed
  /\ sTrace' = c.trace
  /\ sLast' = UpdateRecord(c)

\* The collections after Update: nothing changes while disabled (lines 1534-1536).
SceneryAfterUpdate ==
  IF sEnabled
  THEN SceneryUpdated(CurrentCollections, sChunks, sCamera, MaxSceneryPerFrame)
  ELSE CurrentCollections

\* SceneryController.Update (lines 1532-1816).
SceneryUpdate ==
  /\ \E c \in {SceneryAfterUpdate} : SceneryBecomes(c)
  /\ UNCHANGED <<sEnabled, sCamera, sChunks, sChanges>>
  /\ SceneryOthersUnchanged

\* An Update now would leave every variable as it is.
UpdateChangesNothing ==
  /\ [SceneryAfterUpdate EXCEPT !.created = << >>] = CurrentCollections
  /\ UpdateRecord(SceneryAfterUpdate) = sLast

SceneryChanged ==
  /\ sChanges' = sChanges + 1
  /\ sLast' = [sLast EXCEPT !.called = FALSE]

\* The camera is moved between two Updates.
MoveSceneryCamera(position) ==
  /\ position # sCamera
  /\ sCamera' = position
  /\ SceneryChanged
  /\ UNCHANGED <<sEnabled, sChunks, sByWorldPos, sTypeByWorldPos, sProcessed, sProgress,
                 sObjectsByNode, sScene, sTrace>>
  /\ SceneryOthersUnchanged

\* The terrain manager's chunk set changes between two Updates.
TerrainChunksChange(chunks) ==
  /\ chunks # sChunks
  /\ sChunks' = chunks
  /\ SceneryChanged
  /\ UNCHANGED <<sEnabled, sCamera, sByWorldPos, sTypeByWorldPos, sProcessed, sProgress,
                 sObjectsByNode, sScene, sTrace>>
  /\ SceneryOthersUnchanged

\* SceneryController.SetEnabled (lines 1818-1841).
ScenerySetEnabled(enabled) ==
  /\ sEnabled' = enabled
  /\ sScene' = IF enabled THEN sScene \cup DOMAIN sByWorldPos ELSE sScene \ DOMAIN sByWorldPos
  /\ SceneryChanged
  /\ UNCHANGED <<sCamera, sChunks, sByWorldPos, sTypeByWorldPos, sProcessed, sProgress,
                 sObjectsByNode, sTrace>>
  /\ SceneryOthersUnchanged

SceneryNext ==
  \/ SceneryUpdate
  \/ \E position \in CameraPositions : sChanges < MaxSceneryChanges /\ MoveSceneryCamera(position)
  \/ \E chunks \in ChunkSets : sChanges < MaxSceneryChanges /\ TerrainChunksChange(chunks)
  \/ \E enabled \in BOOLEAN : sChanges < MaxSceneryChanges /\ ScenerySetEnabled(enabled)

ScenerySpec == SceneryInit /\ [][SceneryNext]_vars

SceneryLiveNext ==
  \/ SceneryUpdate
  \/ \E position \in CameraPositions : sChanges < MaxLiveChanges /\ MoveSceneryCamera(position)
  \/ \E chunks \in ChunkSets : sChanges < MaxLiveChanges /\ TerrainChunksChange(chunks)
  \/ \E enabled \in BOOLEAN : sChanges < MaxLiveChanges /\ ScenerySetEnabled(enabled)

\* The render loop calls Update every frame: weak fairness of Update,
\* WF_vars(SceneryUpdate), with its enabling condition written out.
SceneryLiveSpec ==
  /\ SceneryInit /\ [][SceneryLiveNext]_vars
  /\ ([]<>UpdateChangesNothing \/ []<><<SceneryUpdate>>_vars)

(***************************************************************************)
(* Properties of one chunk build (BuildSpec)                               *)
(***************************************************************************)
BuildDone == bPc = "done"
Quads == (0..(bParams.resolution - 1)) \X (0..(bParams.resolution - 1))
CornersOf(q) ==
  LET row == bParams.resolution + 1
  IN {q[1] * row + q[2], q[1] * row + q[2] + 1,
      (q[1] + 1) * row + q[2], (q[1] + 1) * row + q[2] + 1}
\* cullLatitude (given or defaulted) clamped to [0, 1].
ClampedCullLatitude == Max2(0, Min2(LatOne, CullLatitude(bParams)))
QuadWithinBand(q) ==
  \A v \in CornersOf(q) :
    /\ bTrace.verts[v].latitude <= ClampedCullLatitude
    /\ bTrace.verts[v].heightMask > 0
\* The slice of a returned array that belongs to corner c of triangle t.
Slice(arr, stride, t, c) ==
  SubSeq(arr, stride * (3 * (t - 1) + (c - 1)) + 1, stride * (3 * (t - 1) + c))

\* C1: in a ring build every emitted triangle is made of corners of one grid
\* quad whose four vertices all have latitude <= the clamped cullLatitude and
\* heightMask > 0, so no emitted vertex lies above the cull latitude or has a
\* height mask <= 0.
C1_RingCulling ==
  (BuildDone /\ IsRing(bParams)) =>
    /\ Len(bOut.positions) = 9 * Len(bTrace.indices)
    /\ \A t \in 1..Len(bTrace.indices) :
         /\ \E q \in Quads :
              /\ {bTrace.indices[t][c] : c \in 1..3} \subseteq CornersOf(q)
              /\ QuadWithinBand(q)
         /\ \A c \in 1..3 :
              /\ Slice(bOut.positions, 3, t, c) = bTrace.verts[bTrace.indices[t][c]].position
              /\ bTrace.verts[bTrace.indices[t][c]].latitude <= ClampedCullLatitude
              /\ bTrace.verts[bTrace.indices[t][c]].heightMask > 0

\* A ring build in which some quads were dropped and others emitted.
C1_Witness ==
  /\ BuildDone /\ IsRing(bParams)
  /\ Len(bOut.positions) > 0
  /\ \E q \in Quads : ~QuadWithinBand(q)

AllQuadsCulled == IsRing(bParams) /\ \A q \in Quads : ~QuadWithinBand(q)
ArrayNames == {"positions", "colours", "normals", "coords", "uvs", "weights1", "weights2"}

\* C9: when every quad of a ring chunk is culled, Rebuild still returns, and
\* all seven arrays have length 0.
C9_FullyCulledIsEmpty ==
  (BuildDone /\ AllQuadsCulled) =>
    /\ DOMAIN bOut = ArrayNames
    /\ \A a \in ArrayNames : Len(bOut[a]) = 0

\* A fully culled ring chunk whose rebuild has returned.
C9_Witness == BuildDone /\ AllQuadsCulled /\ bParams.resolution > 1

SurvivingTriangles ==
  2 * Cardinality({q \in Quads : IsRing(bParams) => QuadWithinBand(q)})

\* C10: with T surviving triangles, positions, normals, colours and coords
\* hold 9T numbers, uvs 6T, weights1 and weights2 12T; the group of every
\* array at corner c of triangle t belongs to the same grid vertex; a planet
\* chunk has T = 2 * resolution^2.
C10_UnindexedLayout ==
  BuildDone =>
    LET T == SurvivingTriangles
    IN /\ Len(bTrace.indices) = T
       /\ Len(bOut.positions) = 9 * T /\ Len(bOut.normals) = 9 * T
       /\ Len(bOut.colours) = 9 * T /\ Len(bOut.coords) = 9 * T
       /\ Len(bOut.uvs) = 6 * T
       /\ Len(bOut.weights1) = 12 * T /\ Len(bOut.weights2) = 12 * T
       /\ (~IsRing(bParams) => T = 2 * bParams.resolution * bParams.resolution)
       /\ \A t \in 1..T : \A c \in 1..3 :
            LET v == bTrace.indices[t][c]
                splat == GetSplat(bParams, bTrace.verts[v].wsPosition,
                                  bTrace.normals[v], bTrace.verts[v].up)
            IN /\ Slice(bOut.positions, 3, t, c) = bTrace.verts[v].position
               /\ Slice(bOut.colours, 3, t, c) = bTrace.verts[v].colour
               /\ Slice(bOut.coords, 3, t, c) = bTrace.verts[v].coord
               /\ Slice(bOut.normals, 3, t, c) = bTrace.normals[v]
               /\ Slice(bOut.uvs, 2, t, c) = bTrace.verts[v].uv
               /\ \A n \in 1..4 :
                    \E k \in DOMAIN splat :
                      /\ Slice(bOut.weights1, 4, t, c)[n] = splat[k].index
                      /\ Slice(bOut.weights2, 4, t, c)[n][1] = splat[k].strength

\* A planet chunk of resolution above 1 and a partly culled ring chunk.
C10_Witness ==
  /\ BuildDone
  /\ \/ ~IsRing(bParams) /\ bParams.resolution > 1 /\ Len(bOut.uvs) = 6 * SurvivingTriangles
     \/ IsRing(bParams) /\ 0 < Len(bOut.uvs) /\ Len(bOut.uvs) < 12 * Cardinality(Quads)

\* The three splats of emitted triangle t, as Rebuild obtains them.
SplatsOf(t) == TriangleSplats(bParams, bTrace.verts, bTrace.normals, bTrace.indices[t])
\* Strength of type k summed over the three vertices of the triangle.
SummedStrength(splats, k) ==
  splats[1][k].strength + splats[2][k].strength + splats[3][k].strength
\* The texture type whose index is i.
TypeOfIndex(splats, i) == CHOOSE k \in DOMAIN splats[1] : splats[1][k].index = i
\* The types written to weights1 for corner c of triangle t.
WrittenTypes(splats, t, c) ==
  {TypeOfIndex(splats, Slice(bOut.weights1, 4, t, c)[n]) : n \in 1..4}
\* The four weights2 entries are strength / total with one common non-zero
\* total equal to the sum of the four strengths: they sum to 1.
SumsToOne(w) ==
  /\ w[1][2] # 0
  /\ \A n \in 1..4 : w[n][2] = w[1][2]
  /\ w[1][1] + w[2][1] + w[3][1] + w[4][1] = w[1][2]

C12_WeightsConsistent ==
  BuildDone =>
    \A t \in 1..Len(bTrace.indices) :
      /\ Slice(bOut.weights1, 4, t, 1) = Slice(bOut.weights1, 4, t, 2)
      /\ Slice(bOut.weights1, 4, t, 2) = Slice(bOut.weights1, 4, t, 3)
      /\ \A n \in 1..3 :
           SummedStrength(SplatsOf(t), TypeOfIndex(SplatsOf(t), Slice(bOut.weights1, 4, t, 1)[n]))
             <= SummedStrength(SplatsOf(t), TypeOfIndex(SplatsOf(t), Slice(bOut.weights1, 4, t, 1)[n + 1]))
      /\ \A c \in 1..3 : \A n \in 1..4 :
           Slice(bOut.weights2, 4, t, c)[n][1]
             = SplatsOf(t)[c][TypeOfIndex(SplatsOf(t), Slice(bOut.weights1, 4, t, c)[n])].strength

\* A triangle whose written types have pairwise different summed strengths
\* and whose vertices differ in the strength of a written type.
C12_Witness ==
  /\ BuildDone
  /\ \E t \in 1..Len(bTrace.indices) :
       /\ \A n \in 1..3 :
            SummedStrength(SplatsOf(t), TypeOfIndex(SplatsOf(t), Slice(bOut.weights1, 4, t, 1)[n]))
              < SummedStrength(SplatsOf(t), TypeOfIndex(SplatsOf(t), Slice(bOut.weights1, 4, t, 1)[n + 1]))
       /\ \E n \in 1..4 :
            Slice(bOut.weights2, 4, t, 1)[n][1] # Slice(bOut.weights2, 4, t, 2)[n][1]

\* Origins a build is compared against.
OtherOrigins == {<<0, 0, 0>>, <<3, 0, 1>>, <<-7, 12, 5>>}
SameExceptPositions(a, b) ==
  /\ a.coords = b.coords /\ a.colours = b.colours /\ a.normals = b.normals
  /\ a.weights1 = b.weights1 /\ a.weights2 = b.weights2
  /\ Len(a.positions) = Len(b.positions)

\* C16: a build that differs only in origin returns the same coords,
\* colours, normals and weights, and every emitted vertex has
\* positions + origin = coords.
C16_OriginIndependent ==
  BuildDone =>
    /\ \A o \in OtherOrigins :
         SameExceptPositions(bOut, Rebuild([bParams EXCEPT !.origin = o]))
    /\ Len(bOut.positions) = Len(bOut.coords)
    /\ \A i \in 1..Len(bOut.positions) :
         bOut.positions[i] + bParams.origin[((i - 1) % 3) + 1] * PosOne = bOut.coords[i]

\* A build with a non-zero origin that emitted vertices.
C16_Witness ==
  /\ BuildDone
  /\ bParams.origin # <<0, 0, 0>>
  /\ Len(bOut.positions) > 0
  /\ bOut.positions # bOut.coords

(***************************************************************************)
(* Properties of the worker (WorkerSpec)                                   *)
(***************************************************************************)
IsBuildChunk(e) == e.msg.subject = "build_chunk"

\* C6: two build_chunk requests with identical params yield identical result
\* arrays and leave identical per-request state, whatever the same worker
\* instance handled before or in between.
C6_SameParamsSameResult ==
  \A i, j \in DOMAIN wLog :
    (/\ IsBuildChunk(wLog[i]) /\ IsBuildChunk(wLog[j])
     /\ wLog[i].msg.params = wLog[j].msg.params
     /\ wLog[i].outcome = "posted" /\ wLog[j].outcome = "posted")
    => /\ wLog[i].posts[1].data = wLog[j].posts[1].data
       /\ wLog[i].after = wLog[j].after

\* The same ring request answered twice with non-empty arrays, with a request
\* of other shapeParams answered in between.
C6_Witness ==
  /\ Len(wLog) >= 3
  /\ wLog[1].outcome = "posted" /\ wLog[2].outcome = "posted" /\ wLog[3].outcome = "posted"
  /\ wLog[1].msg.params = wLog[3].msg.params
  /\ wLog[1].after.shape = "ring" /\ wLog[2].after.shape = "ring"
  /\ wLog[2].msg.params.shapeParams # wLog[1].msg.params.shapeParams
  /\ Len(wLog[3].posts[1].data.positions) > 0

\* C7: every build_chunk message is answered by exactly one
\* build_chunk_result holding the seven arrays, with the seven buffers in the
\* transfer list; a message with another subject gets no response and
\* changes no state.
C7_OneResultPerRequest ==
  \A i \in DOMAIN wLog :
    /\ IsBuildChunk(wLog[i]) =>
         /\ Len(wLog[i].posts) = 1
         /\ wLog[i].posts[1].subject = "build_chunk_result"
         /\ DOMAIN wLog[i].posts[1].data = ArrayNames
         /\ Len(wLog[i].posts[1].transfer) = 7
         /\ {wLog[i].posts[1].transfer[n] : n \in 1..7} = ArrayNames
    /\ ~IsBuildChunk(wLog[i]) =>
         /\ wLog[i].posts = << >>
         /\ wLog[i].after = wLog[i].before

\* Params from which Init can build its generators.
CompleteParams(params) ==
  /\ params # NoParams
  /\ {"offset", "center", "heightGeneratorsParams"} \subseteq DOMAIN params

\* C8: the handler never throws on a build_chunk request; a build that
\* cannot produce valid output is answered with empty arrays.
C8_HandlerNeverThrows ==
  \A i \in DOMAIN wLog :
    IsBuildChunk(wLog[i]) =>
      /\ wLog[i].outcome # "threw"
      /\ ~CompleteParams(wLog[i].msg.params) =>
           /\ Len(wLog[i].posts) = 1
           /\ \A a \in ArrayNames : Len(wLog[i].posts[1].data[a]) = 0

(***************************************************************************)
(* Claims about the ocean chunk manager, under OceanSpec                   *)
(***************************************************************************)
\* The state is the one the last Update left: nothing cleared the chunks since.
AfterUpdate == oLast.updates > 0 /\ ~oCleared

\* The leaves of the quadtree query of Update u, as pairs of face and node.
QueryLeaves(u) ==
  UNION { { <<i, n>> : n \in LeavesUnder(RootNode(u.radius),
                                         CameraOnPlane(i, OceanQueryPosition(oShape, u.camera,
                                                                             oCenter)),
                                         u.minCellSize) } : i \in 0..5 }
LeafKey(l) == <<l[2].center[1], l[2].center[2], l[2].size, l[1]>>
AttachedMeshes == UNION { oGroups[i] : i \in DOMAIN oGroups }
ChunkMeshes == { oChunks[k].mesh : k \in DOMAIN oChunks }

\* C3: after every Update the keys of _chunks are exactly the keys of the
\* leaves of that Update's quadtree query, one chunk per leaf; every entry
\* has its own mesh, which is a child of the group of its face and of no
\* other group; and the groups hold no mesh besides those of the entries.
C3_ChunksMatchLeaves ==
  AfterUpdate =>
    /\ DOMAIN oChunks = { LeafKey(l) : l \in QueryLeaves(oLast) }
    /\ Cardinality(DOMAIN oChunks) = Cardinality(QueryLeaves(oLast))
    /\ \A l \in QueryLeaves(oLast) :
         /\ Has(oChunks[LeafKey(l)], "mesh")
         /\ oChunks[LeafKey(l)].group = l[1]
         /\ \A i \in DOMAIN oGroups :
              (oChunks[LeafKey(l)].mesh \in oGroups[i]) <=> (i = l[1])
    /\ \A j, k \in DOMAIN oChunks : j # k => oChunks[j].mesh # oChunks[k].mesh
    /\ AttachedMeshes = ChunkMeshes

\* A second Update, after a camera move, that kept chunks, recycled chunks
\* and created chunks.
C3_Witness ==
  /\ AfterUpdate
  /\ oLast.updates >= 2
  /\ oLast.camera # oLast.prevCamera
  /\ oLast.recycled # {}
  /\ oLast.created # {}
  /\ DOMAIN oLast.before \cap DOMAIN oChunks # {}

\* The chunks the last Update had to recycle: their key was in the chunk map
\* before it and is not a leaf key of its query.
RecycledByLast ==
  { oLast.before[k] : k \in DOMAIN oLast.before \ { LeafKey(l) : l \in QueryLeaves(oLast) } }

\* C4: after an Update that recycled a chunk, the chunk's mesh is a child of
\* no face group, and no entry of the chunk map holds its mesh or its
\* geometry.
C4_RecycledUnreferenced ==
  AfterUpdate =>
    \A c \in RecycledByLast :
      /\ c.mesh \notin AttachedMeshes
      /\ \A k \in DOMAIN oChunks :
           oChunks[k].mesh # c.mesh /\ oChunks[k].geometry # c.geometry

C4_Witness == AfterUpdate /\ RecycledByLast # {} /\ DOMAIN oChunks # {}

\* The last Update changed nothing: same keys, nothing created, recycled or
\* disposed, every entry with the mesh and geometry it had.
NoChurn ==
  /\ oLast.keys = oLast.prevKeys
  /\ oLast.created = {}
  /\ oLast.recycled = {}
  /\ oLast.disposed = {}
  /\ DOMAIN oChunks = DOMAIN oLast.before
  /\ \A k \in DOMAIN oChunks :
       /\ oChunks[k].mesh = oLast.before[k].mesh
       /\ oChunks[k].geometry = oLast.before[k].geometry
  /\ AttachedMeshes = ChunkMeshes

StationaryCamera == AfterUpdate /\ oLast.updates >= 2 /\ oLast.camera = oLast.prevCamera
ControlsUntouched ==
  /\ ~oLast.cleared
  /\ oLast.radius = oLast.prevRadius
  /\ oLast.minCellSize = oLast.prevMinCellSize

\* C5 as stated: the camera position being the same at two consecutive
\* Updates, the second Update changes nothing.
C5_StationaryCameraNoChurn == StationaryCamera => NoChurn

\* C5: the camera position being the same at two consecutive Updates, and
\* neither the radius control (which clears the chunks) nor the
\* minimum-cell-size control having been used between them, the second
\* Update leaves the key set, the chunk map and the groups as they were and
\* creates, recycles and disposes nothing.
C5_StationaryAndUntouchedNoChurn == (StationaryCamera /\ ControlsUntouched) => NoChurn

C5_Witness == StationaryCamera /\ ControlsUntouched /\ DOMAIN oChunks # {}

\* The six face groups of the manager.
FaceGroups == DOMAIN oGroups

\* A step that changes the children of the scene: in the ocean manager only
\* SetEnabled does.
SceneChanges == oScene' # oScene

\* What SetEnabled must leave alone: the chunk map, the groups' meshes, the
\* meshes' positions and the geometries and materials allocated and disposed.
OceanStateKept ==
  UNCHANGED <<oChunks, oGroups, oMeshPosition, oAllocated, oDisposed, oCleared, oRadius,
              oMinCellSize, oTotalTime>>

\* C20: a call of SetEnabled that changes the scene detaches all six face
\* groups or attaches all six, and changes nothing else of the manager; in
\* every state SetEnabled(false) leaves no face group in the scene, and
\* SetEnabled(true) after it leaves all six in it, which is the membership
\* before the two calls whenever the groups were attached.
C20_SetEnabledOnlyMovesGroups ==
  /\ [][SceneChanges =>
          /\ OceanStateKept
          /\ \/ oScene = FaceGroups /\ oScene' = {}
             \/ oScene = {} /\ oScene' = FaceGroups]_vars
  /\ [](/\ Cardinality(FaceGroups) = 6
        /\ SceneAfterSetEnabled(oScene, oGroups, FALSE) = {}
        /\ SceneAfterSetEnabled(SceneAfterSetEnabled(oScene, oGroups, FALSE), oGroups, TRUE)
             = FaceGroups
        /\ (oScene = FaceGroups) =>
             SceneAfterSetEnabled(SceneAfterSetEnabled(oScene, oGroups, FALSE), oGroups, TRUE)
               = oScene)

\* The groups are detached while the manager holds chunks with meshes.
C20_Witness == oScene = {} /\ DOMAIN oChunks # {} /\ DOMAIN oMeshPosition # {}

\* The geometries and cloned materials of the chunks in the chunk map.
ResourcesInUse == AllocatedWith(oChunks)

\* C30: every resource _CreateOceanChunk allocated for a chunk (its
\* geometry and, for a ring, its cloned material) has been disposed once the
\* chunk has left the chunk map, by recycling in Update or by
\* _ClearAllChunks.
C30_ResourcesDisposed == (oAllocated \ ResourcesInUse) \subseteq oDisposed

\* The geometries alone: each is disposed once its chunk has left the map.
GeometriesDisposed ==
  { r \in oAllocated \ ResourcesInUse : Has(r, "geometry") } \subseteq oDisposed

(***************************************************************************)
(* Claims about the terrain chunk manager, under TerrainSpec               *)
(***************************************************************************)
\* The last build to complete was for a key outside the leaf set desired at
\* that time.
StaleCompletion == tLast.completions > 0 /\ tLast.key \notin tLast.desired

\* C2: when a build completes for a key that is not in the desired leaf set
\* at that time, the chunk map and the children of every face group are
\* left as they were: no mesh is attached and the map has no entry for the
\* key.
C2_StaleResultDiscarded ==
  StaleCompletion =>
    /\ tLast.after = tLast.before
    /\ tLast.groupsAfter = tLast.groupsBefore
    /\ tLast.key \notin DOMAIN tLast.after

\* A stale completion that arrived after an earlier result had been
\* materialized and after the camera had made the manager drop the key.
C2_Witness ==
  /\ StaleCompletion
  /\ tLast.completions >= 2
  /\ tLast.before # << >>
  /\ tUpdates >= 2

(***************************************************************************)
(* Claims about the ring height mask, under MaskSpec                       *)
(***************************************************************************)
\* C13: for every shapeParams and latitude, the height mask computed by
\* SceneryController._GetTerrainHeight equals the one computed by Rebuild.
C13_SceneryMaskEqualsBuilderMask ==
  (mDone = {"builder", "scenery"}) => mSceneryMask = mBuilderMask

\* C14: for any numeric shapeParams Rebuild uses latFade >= 1e-5, latCutoff
\* in [0, 1] and a cull limit in [0, 1], and the heightMask of a ring vertex
\* is a finite value in [0, 1].
C14_MaskClampedToUnitRange ==
  ("builder" \in mDone) =>
    /\ LatFadeSafe(RingParams(mShapeParams)) >= LatFadeMin
    /\ LatCutoffClamped(RingParams(mShapeParams)) \in 0..LatOne
    /\ CullLatitudeLimit(RingParams(mShapeParams)) \in 0..LatOne
    /\ mBuilderMask \in 0..MaskOne

QuadQueried == qChildren # << >>
RootSize == 2 * qRadius
LeafArea(n) == Box3Size(n.bounds)[1] * Box3Size(n.bounds)[2]
RECURSIVE SumOfAreas(_)
SumOfAreas(nodes) ==
  IF nodes = {} THEN 0
  ELSE LeafArea(CHOOSE n \in nodes : TRUE)
       + SumOfAreas(nodes \ {CHOOSE n \in nodes : TRUE})
\* The interiors of the two bounds are disjoint.
NonOverlapping(a, b) ==
  \/ a.bounds.max[1] <= b.bounds.min[1] \/ b.bounds.max[1] <= a.bounds.min[1]
  \/ a.bounds.max[2] <= b.bounds.min[2] \/ b.bounds.max[2] <= a.bounds.min[2]
WithinFace(n) ==
  /\ -qRadius <= n.bounds.min[1] /\ n.bounds.max[1] <= qRadius
  /\ -qRadius <= n.bounds.min[2] /\ n.bounds.max[2] <= qRadius

\* C17: the leaves returned by GetChildren() after Insert tile each of the
\* six faces: they lie within the face, they are pairwise non-overlapping,
\* and their areas sum to the face area.
C17_LeavesTileFaces ==
  QuadQueried =>
    /\ DOMAIN qChildren = 0..5
    /\ \A i \in 0..5 :
         /\ \A a \in qChildren[i].children : WithinFace(a)
         /\ \A a, b \in qChildren[i].children : a # b => NonOverlapping(a, b)
         /\ SumOfAreas(qChildren[i].children) = RootSize * RootSize

\* A query in which one face is a single leaf and another is subdivided to
\* leaves of different sizes.
C17_Witness ==
  /\ QuadQueried
  /\ \E i \in 0..5 : Cardinality(qChildren[i].children) = 1
  /\ \E i \in 0..5 : \E a, b \in qChildren[i].children : a.size # b.size

\* The level of a node of the given size: the root is level 1.
RECURSIVE LevelOf(_)
LevelOf(size) == IF size >= RootSize THEN 1 ELSE 1 + LevelOf(2 * size)
\* ceil(log2(RootSize / min_node_size)): the least k with min * 2^k >= RootSize.
RECURSIVE CeilLog2Ratio(_)
CeilLog2Ratio(m) == IF m >= RootSize THEN 0 ELSE 1 + CeilLog2Ratio(2 * m)
QuadLeaves == UNION { qChildren[i].children : i \in DOMAIN qChildren }

C19_TrackWaitsForTerrain ==
  (dSceneType \in {"planet", "both"}) =>
    /\ ~dLast.movedBeforeReady
    /\ (dLast.isReadyTrue = 0) =>
         /\ dTrack.paused /\ dTrack.currentTime = 0 /\ dCamera = "orbit"
         /\ dLast.unpaused = 0 /\ dLast.firstReadyStep = 0
    /\ (dLast.isReadyTrue > 0) =>
         /\ dLast.unpaused = 1 /\ ~dTrack.paused
         /\ dLast.unpausedInStep = dLast.firstReadyStep
    /\ dLast.paused = 0

\* The track waited for a step, was unpaused in a later step and has moved
\* the camera.
C19_Witness ==
  /\ dSceneType \in {"planet", "both"}
  /\ dLast.unpaused = 1 /\ dLast.unpausedInStep >= 2
  /\ dLast.moved > 0
  /\ dCamera # "orbit"

\* The value of the scene parameter of the URL, when it has one.
SceneParameter == UrlGet(dUrl, "scene")

\* C21: the scene type is the URL's scene parameter when that is exactly
\* "planet", "ring" or "both" and "both" otherwise; the planet terrain manager
\* exists iff the type is planet or both, the ring terrain manager iff the
\* type is ring or both.
C21_SceneTypeFromURL ==
  /\ (SceneParameter.found /\ SceneParameter.value \in {"planet", "ring", "both"})
       => dSceneType = SceneParameter.value
  /\ ~(SceneParameter.found /\ SceneParameter.value \in {"planet", "ring", "both"})
       => dSceneType = "both"
  /\ dTerrain <=> dSceneType \in {"planet", "both"}
  /\ dRingworld <=> dSceneType \in {"ring", "both"}

\* A URL with an unknown scene has given both managers, and the demo has run.
C21_Witness ==
  /\ SceneParameter.found /\ SceneParameter.value = "moon"
  /\ dTerrain /\ dRingworld /\ dLast.steps > 0

(***************************************************************************)
(* Claims about the first-person controller, under FpsSpec and AccelSpec   *)
(***************************************************************************)
\* The camera and the controller's motion state are as the last event found
\* them.
CameraAsBefore ==
  /\ fPosition = fLast.position /\ fQuaternion = fLast.quaternion
  /\ fVelocity = fLast.velocity /\ fAcceleration = fLast.acceleration

\* C22: on a non-touch device _enabled holds exactly while document.body has
\* the pointer lock; a mouse move, a mouse wheel or an Update handled while
\* not enabled leaves the camera position, the camera orientation, the
\* velocity and the acceleration as they were.
C22_EnabledIffPointerLock ==
  /\ ~fTouch => (fEnabled <=> fLock = "body")
  /\ (fLast.event \in {"mousemove", "wheel", "update"} /\ ~fLast.enabled) => CameraAsBefore

\* The lock was lost with a key held and the camera moving, and an Update
\* followed.
C22_Witness ==
  /\ ~fTouch /\ ~fEnabled /\ fLock # "body"
  /\ fLast.event = "update" /\ ~fLast.enabled
  /\ fLast.keys # {} /\ fLast.velocity # <<0, 0, 0>>

\* The displacement d is a positive multiple of the unit vector u.
Along(d, u) == VDot(d, u) > 0 /\ VCross(d, u) = <<0, 0, 0>>

\* The camera's displacement in the last Update.
Displacement == VSub(fPosition, fLast.position)

\* No gamepad is connected, or its stick and d-pad are not touched.
GamepadIdle ==
  /\ fGamepad.leftStickX = 0 /\ fGamepad.leftStickY = 0
  /\ ~fGamepad.dpadUp /\ ~fGamepad.dpadDown

\* An Update was handled while enabled and at rest with one key held and
\* the gamepad, if any, idle.
UpdateFromRestHolding(keyCode) ==
  /\ fLast.event = "update" /\ fLast.enabled
  /\ fLast.velocity = <<0, 0, 0>>
  /\ fLast.keys = {keyCode}
  /\ GamepadIdle

\* C23: an Update while enabled and from rest moves the camera along its view
\* direction when W is held and against it when S is, to its left for A and
\* its right for D, along its up vector for PgUp and against it for PgDn.
C23_KeysMoveCamera ==
  /\ UpdateFromRestHolding(87) => Along(Displacement, ForwardVector(fQuaternion))
  /\ UpdateFromRestHolding(83) => Along(Displacement, VNeg(ForwardVector(fQuaternion)))
  /\ UpdateFromRestHolding(65) => Along(Displacement, VNeg(SideVector(fQuaternion)))
  /\ UpdateFromRestHolding(68) => Along(Displacement, SideVector(fQuaternion))
  /\ UpdateFromRestHolding(33) => Along(Displacement, UpVector(fQuaternion))
  /\ UpdateFromRestHolding(34) => Along(Displacement, VNeg(UpVector(fQuaternion)))

\* C24: guiParams.camera.acceleration_x stays within [4, 24], a wheel event,
\* a touch button press or an Update (which polls the triggers) changes it
\* by one step of 0.5 or not at all, and _acceleration is (a, a, a) for its
\* value a.
C24_AccelerationClamped ==
  /\ fAccelX \in MinAcceleration..MaxAcceleration
  /\ fAcceleration = <<fAccelX, fAccelX, fAccelX>>
  /\ Abs(fAccelX - fLast.accelX) \in {0, AccelerationStep}
  /\ fLast.event \notin {"wheel", "touch", "update"} => fAccelX = fLast.accelX

\* A wheel step down at the minimum changed nothing.
C24_Witness ==
  /\ fLast.event = "wheel" /\ fLast.enabled /\ fLast.change = -AccelerationStep
  /\ fLast.accelX = MinAcceleration /\ fAccelX = MinAcceleration

(***************************************************************************)
(* Claims about the scenery controller                                     *)
(***************************************************************************)
\* C25: a single Update creates at most _maxSceneryPerFrame (1) new scenery
\* objects in total, however many terrain chunks are within range of the
\* camera.
C25_AtMostOnePerUpdate ==
  sLast.called => Len(sLast.created) <= MaxSceneryPerFrame

IsPrefix(s, t) == Len(s) <= Len(t) /\ \A i \in 1..Len(s) : s[i] = t[i]

\* C26: the candidate positions and scenery types generated for a chunk are
\* the same whether its attempts are made in one Update or spread over
\* several: with one chunk, a camera that stays and scenery enabled, what
\* the Updates so far generated is the beginning of what one Update making
\* all the attempts generates.
C26_ResumedStreamMatches ==
  (sChanges = 0 /\ Len(sChunks) = 1 /\ sChunks[1].key \in DOMAIN sTrace)
    => IsPrefix(sTrace[sChunks[1].key], SinglePassCandidates(sChunks[1], sCamera))

\* The Update that has just returned ran while scenery was enabled.
UpdateRan == sLast.called /\ sLast.ran
SceneryBefore == sLast.before.byWorldPos
BookkeepingKeys == (DOMAIN sProgress) \cup sProcessed \cup sObjectsByNode
BookkeepingKeysBefore ==
  (DOMAIN sLast.before.progress) \cup sLast.before.processed \cup sLast.before.objectsByNode

\* C27: an Update removes a scenery object only if its distance from the
\* camera exceeds _maxSceneryDistance; a chunk key that has disappeared from
\* GetChunks() loses its bookkeeping, and every scenery object within the
\* distance stays, unchanged, in _sceneryByWorldPos and in the scene.
C27_SceneryPersistsByWorldPos ==
  UpdateRan =>
    /\ \A k \in DOMAIN SceneryBefore :
         \/ TooFar(sLast.camera, SceneryBefore[k].position)
         \/ /\ k \in DOMAIN sByWorldPos
            /\ sByWorldPos[k] = SceneryBefore[k]
            /\ k \in sLast.before.scene => k \in sScene
    /\ BookkeepingKeys \subseteq ChunkKeys(sLast.chunks)

\* An Update after a chunk with scenery has disappeared (subdivision): its
\* bookkeeping is gone, its scenery is all still there.
C27_Witness ==
  /\ UpdateRan
  /\ BookkeepingKeysBefore \ ChunkKeys(sLast.chunks) # {}
  /\ SceneryBefore # << >>
  /\ DOMAIN SceneryBefore \subseteq DOMAIN sByWorldPos
  /\ DOMAIN SceneryBefore \subseteq sScene

\* Every chunk that passes the size and distance filters is in _processedChunks.
AllProcessed ==
  \A i \in DOMAIN sChunks :
    PassesFilters(sChunks[i], sCamera) => sChunks[i].key \in sProcessed

\* The Update that has just returned raised the attempt count of every
\* chunk it had still to work on.
AttemptsRaised ==
  UpdateRan =>
    \A i \in DOMAIN sLast.chunks :
      (/\ PassesFilters(sLast.chunks[i], sLast.camera)
       /\ sLast.chunks[i].key \notin sLast.before.processed)
        => /\ sLast.chunks[i].key \in DOMAIN sProgress
           /\ sProgress[sLast.chunks[i].key]
                >= MapGet(sLast.before.progress, sLast.chunks[i].key, 0) + 1

AttemptsBounded ==
  \A i \in DOMAIN sChunks :
    sChunks[i].key \in DOMAIN sProgress => sProgress[sChunks[i].key] <= NumScenery(sChunks[i])

\* C28: when scenery stays enabled and the camera and the chunk set have
\* stopped changing, every chunk that passes the size and distance filters
\* ends up in _processedChunks: each Update raises its attempt count by at
\* least one, and the count never exceeds numScenery.
C28_ChunksGetProcessed ==
  /\ [](AttemptsRaised /\ AttemptsBounded)
  /\ (<>[]sEnabled) => <>[]AllProcessed

\* A chunk finished by an Update after earlier Updates had worked on it,
\* with nothing changed since the construction.
C28_Witness ==
  /\ UpdateRan /\ sChanges = 0
  /\ \E i \in DOMAIN sChunks :
       /\ PassesFilters(sChunks[i], sCamera)
       /\ sChunks[i].key \in sProcessed \ sLast.before.processed
       /\ MapGet(sLast.before.progress, sChunks[i].key, 0) > 0
       /\ sProgress[sChunks[i].key] = NumScenery(sChunks[i])

\* The two maps have the same keys, each key with its one object and that
\* object's type, every object is within _maxSceneryDistance of the camera, and the
\* bookkeeping has only keys of the current chunk set.
SceneryConsistent ==
  /\ DOMAIN sByWorldPos = DOMAIN sTypeByWorldPos
  /\ \A k \in DOMAIN sByWorldPos : sTypeByWorldPos[k] = sByWorldPos[k].mesh
  /\ \A k \in DOMAIN sByWorldPos : ~TooFar(sCamera, sByWorldPos[k].position)
  /\ BookkeepingKeys \subseteq ChunkKeys(sChunks)

\* C29 as stated: the maps, distances and bookkeeping are consistent after
\* every Update.
C29_ConsistentAfterEveryUpdate == sLast.called => SceneryConsistent

\* C29: the maps, distances and bookkeeping are consistent after every
\* Update that runs while scenery is enabled.
C29_ConsistentAfterEnabledUpdate == UpdateRan => SceneryConsistent

\* An Update that removed distant scenery and stale bookkeeping and left
\* scenery in place.
C29_Witness ==
  /\ UpdateRan
  /\ sByWorldPos # << >>
  /\ ~(DOMAIN SceneryBefore \subseteq DOMAIN sByWorldPos)
  /\ ~(BookkeepingKeysBefore \subseteq ChunkKeys(sChunks))

=============================================================================
